---- MODULE Spec2Model ----
(***************************************************************************)
(* Retrieval pipeline of llm-document-assistant: the content-addressed     *)
(* vector store cache (src/vectorstore/vectordb.py), the lazily loaded     *)
(* embedding model and LLM singletons (src/embedding/embed_model.py,       *)
(* src/llm/model.py) and the instrumented query orchestrator               *)
(* (src/retriever/QA_chain.py).                                            *)
(*                                                                         *)
(* Threads are the worker threads of the web front end: every event        *)
(* handler call runs on its own thread and all of them share the           *)
(* module-level globals.  A thread switch is modelled at the places where  *)
(* CPython can switch: around calls (logging, model load, index build),    *)
(* never between a load of a global and the return that follows it.        *)
(*                                                                         *)
(* Strings are sequences of one-character strings.  SHA-256 is modelled    *)
(* as a perfect hash: the digest of a byte string is the tagged byte       *)
(* string itself, so two digests are equal exactly when the hashed bytes   *)
(* are equal.                                                              *)
(***************************************************************************)
EXTENDS Integers, Sequences, FiniteSets, TLC

\* ---------------------------------------------------------------- bounds
NumThreads == 2
MaxCalls == 2
MaxTextLen == 3
MaxChunks == 2
MaxPages == 2
MaxPageLen == 1
MaxQueryLen == 3
MaxDocs == 3
MaxChat == 2
MaxAnswerLen == 5

\* page_content[:200] of vectordb.py:35, scaled so that texts longer than
\* the prefix are enumerable
PREFIX_LEN == 2

\* len(query) > 2000 of QA_chain.py:127, scaled with the questions
QUERY_MAX == 2

\* page_content[:200] of QA_chain.py:181, scaled with the texts
EXCERPT_LEN == 2

\* number of documents the retriever of as_retriever() returns (4), scaled
\* with the documents
TOP_K == 2

Threads == 1..NumThreads

\* characters of a chunk text
Chars == {"a"}
\* "S" stands for a lone surrogate code point, which UTF-8 cannot encode
Surrogates == {"S"}
Pages == {0}

None == 0

\* whitespace characters, as str.strip() sees them
Whitespace == {" "}

\* ------------------------------------------------------- pure functions
Texts == UNION {[1..k -> Chars] : k \in 1..MaxTextLen}

Chunk(text, page) == [page_content |-> text, page |-> page]

AllChunks == {Chunk(x, p) : x \in Texts, p \in Pages}

\* the chunk lists a caller can pass, the empty list included
ChunkLists == UNION {[1..k -> AllChunks] : k \in 0..MaxChunks}

SliceWhole(s, n) == s

\* s[:n]
Slice(s, n) == SubSeq(s, 1, IF Len(s) < n THEN Len(s) ELSE n)

\* str.encode("utf-8", errors="replace"): a code point that cannot be
\* encoded becomes "?"
EncodeUtf8Replace(s) == [i \in 1..Len(s) |-> IF s[i] \in Surrogates THEN "?" ELSE s[i]]

\* hasher.hexdigest() of the bytes fed by the update() calls
Sha256Hex(bytes) == <<"sha256", bytes>>

RECURSIVE HasherUpdates(_, _)
\* the bytes fed to the hasher by the loop over chunks[i..]
HasherUpdates(cs, i) ==
    IF i > Len(cs) THEN <<>>
    ELSE EncodeUtf8Replace(Slice(cs[i].page_content, PREFIX_LEN)) \o HasherUpdates(cs, i + 1)

HashFirstChunkOnly(cs) == Sha256Hex(HasherUpdates(SubSeq(cs, 1, 1), 1))

HashWithPages(cs) == Sha256Hex(HasherUpdates(cs, 1) \o [i \in DOMAIN cs |-> cs[i].page])

\* vectordb.py:25-36
_compute_chunks_hash(cs) == Sha256Hex(HasherUpdates(cs, 1))

\* ------------------------------------------------------------- state
VARIABLES
    env,                    \* .env and config/model.yaml as the process finds them
    pc,                     \* per thread: where its call stands
    entry,                  \* per thread: the function it was asked to run
    result,                 \* per thread: what its call returned or raised
    chunks,                 \* vector_database: the argument
    chunks_hash,            \* vector_database: the local chunks_hash
    embed_model,            \* vector_database: the local embed_model
    retrieved,              \* per thread: a document a similarity query on the returned store gave
    file,                   \* retriever_qa_with_metadata: the argument file
    query,                  \* retriever_qa_with_metadata: the argument, then the local query
    splits,                 \* retriever_qa_with_metadata: the local splits
    source_docs,            \* retriever_qa_with_metadata: the local source_docs
    metrics,                \* retriever_qa_with_metadata: the local metrics
    vectordb,               \* retriever_qa_with_metadata: the local vectordb
    llm,                    \* retriever_qa_with_metadata: the local llm
    answer,                 \* retriever_qa_with_metadata: first component of the returned triple
    sources,                \* retriever_qa_with_metadata: second component of the returned triple
    _vectordb_cache,        \* vectordb.py:22
    _embed_model_instance,  \* embed_model.py:38
    _llm_instance,          \* model.py:8
    chroma_objs,            \* the Chroma objects constructed so far, by identity
    chroma_collection,      \* documents of the default collection in CHROMA_PERSIST_DIR, in insertion order
    embed_objs,             \* number of HuggingFaceEmbeddings objects constructed so far
    llm_objs,               \* number of OllamaLLM objects constructed so far
    embed_calls,            \* number of embedding runs over a chunk list
    ncalls,                 \* calls started so far
    trace,                  \* per thread: the stages its query has entered, in order
    work,                   \* per thread: the costly operations its call has performed
    prev,                   \* per thread: what the query before the current one gave
    chatbot,                \* the value of the Chatbot component
    pdf_input,              \* the value of the File component
    metrics_panel,          \* the status the metrics panel shows
    pending,                \* a bot_response event waits behind a submit
    bot_pc,                 \* per thread: where its run of bot_response stands
    chat_history,           \* bot_response: the argument chat_history
    words,                  \* bot_response: the local words
    streamed,               \* bot_response: the local streamed
    idx,                    \* bot_response: the loop variable i
    yields                  \* per thread: the answer texts its typewriter loop has yielded

vdb_locals == <<chunks, chunks_hash, embed_model>>
qa_args == <<file, query, splits, source_docs>>
qa_frame == <<metrics, vectordb, llm, answer, sources, trace>>
singletons == <<_embed_model_instance, _llm_instance, embed_objs, llm_objs>>
stores == <<_vectordb_cache, chroma_objs, chroma_collection, embed_calls>>
components == <<chatbot, pdf_input, metrics_panel, pending>>
bot_frame == <<bot_pc, chat_history, words, streamed, idx, yields>>
ui == <<components, bot_frame>>

vars == <<env, pc, entry, result, vdb_locals, retrieved, qa_args, qa_frame,
          singletons, stores, ncalls, work, prev, ui>>

\* what the process can find in .env and config/model.yaml
EnvOk ==
    [hf_token |-> TRUE, config_exists |-> TRUE, embedding_model |-> TRUE,
     llm_model |-> TRUE, llm_base_url |-> TRUE]

Envs ==
    { EnvOk,
      [EnvOk EXCEPT !.hf_token = FALSE],
      [EnvOk EXCEPT !.config_exists = FALSE],
      [EnvOk EXCEPT !.embedding_model = FALSE],
      [EnvOk EXCEPT !.llm_model = FALSE],
      [EnvOk EXCEPT !.llm_base_url = FALSE] }

NoResult == [kind |-> "none", val |-> None, exc |-> ""]
Returned(v) == [kind |-> "return", val |-> v, exc |-> ""]
Raised(e) == [kind |-> "raise", val |-> None, exc |-> e]

NoHash == <<"none", <<>>>>
NoDoc == Chunk(<<>>, 0)
\* file is None
NoFile == [none |-> TRUE, exists |-> FALSE, suffix |-> <<>>, size |-> 0, parses |-> FALSE, pages |-> <<>>]
NoQuery == [is_str |-> TRUE, text |-> <<>>]
NoAnswer == [msg |-> "", exc |-> ""]
NoMetrics == [k \in {} |-> 0]
\* no query before the current one, or one that did not end with an answer
NoPrev == [ok |-> FALSE, file |-> NoFile, query |-> NoQuery, num_pages |-> 0, num_chunks |-> 0]

Init ==
    /\ env \in Envs
    /\ pc = [t \in Threads |-> "idle"]
    /\ entry = [t \in Threads |-> "none"]
    /\ result = [t \in Threads |-> NoResult]
    /\ chunks = [t \in Threads |-> <<>>]
    /\ chunks_hash = [t \in Threads |-> NoHash]
    /\ embed_model = [t \in Threads |-> None]
    /\ retrieved = [t \in Threads |-> NoDoc]
    /\ file = [t \in Threads |-> NoFile]
    /\ query = [t \in Threads |-> NoQuery]
    /\ splits = [t \in Threads |-> <<>>]
    /\ source_docs = [t \in Threads |-> <<>>]
    /\ metrics = [t \in Threads |-> NoMetrics]
    /\ vectordb = [t \in Threads |-> None]
    /\ llm = [t \in Threads |-> None]
    /\ answer = [t \in Threads |-> NoAnswer]
    /\ sources = [t \in Threads |-> <<>>]
    /\ _vectordb_cache = [h \in {} |-> None]
    /\ _embed_model_instance = None
    /\ _llm_instance = None
    /\ chroma_objs = <<>>
    /\ chroma_collection = <<>>
    /\ embed_objs = 0
    /\ llm_objs = 0
    /\ embed_calls = 0
    /\ ncalls = 0
    /\ trace = [t \in Threads |-> <<>>]
    /\ work = [t \in Threads |-> {}]
    /\ prev = [t \in Threads |-> NoPrev]
    /\ chatbot = <<>>
    /\ pdf_input = NoFile
    /\ metrics_panel = "STANDBY"
    /\ pending = FALSE
    /\ bot_pc = [t \in Threads |-> "idle"]
    /\ chat_history = [t \in Threads |-> <<>>]
    /\ words = [t \in Threads |-> <<>>]
    /\ streamed = [t \in Threads |-> <<>>]
    /\ idx = [t \in Threads |-> 0]
    /\ yields = [t \in Threads |-> <<>>]

\* ------------------------------------------------- exceptions and handlers
\* the classes an exception of class e is an instance of
Mro(e) ==
    CASE e = "FileNotFoundError" -> {"FileNotFoundError", "OSError", "Exception"}
      [] e = "ConnectionError" -> {"ConnectionError", "OSError", "Exception"}
      [] e = "OSError" -> {"OSError", "Exception"}
      [] e = "ValueError" -> {"ValueError", "Exception"}
      [] e = "RuntimeError" -> {"RuntimeError", "Exception"}
      [] OTHER -> {e}

CatchNoGeneric(e) ==
    IF Mro(e) \cap {"ValueError", "FileNotFoundError"} # {} THEN "Input error"
    ELSE IF "ConnectionError" \in Mro(e) THEN "Could not connect"
    ELSE "escape"

CatchNoConnection(e) ==
    IF Mro(e) \cap {"ValueError", "FileNotFoundError"} # {} THEN "Input error"
    ELSE IF "Exception" \in Mro(e) THEN "An unexpected error occurred"
    ELSE "escape"

\* QA_chain.py:186-201: the except clauses in their order; the message an
\* exception of class e is turned into
Catch(e) ==
    IF Mro(e) \cap {"ValueError", "FileNotFoundError"} # {} THEN "Input error"
    ELSE IF "ConnectionError" \in Mro(e) THEN "Could not connect"
    ELSE IF "Exception" \in Mro(e) THEN "An unexpected error occurred"
    ELSE "escape"

\* thread t moves on inside its call
Goto(t, label) ==
    /\ pc' = [pc EXCEPT ![t] = label]
    /\ UNCHANGED <<result, qa_frame>>

\* the top-level call of thread t ends with outcome r
TopReturn(t, r) ==
    /\ pc' = [pc EXCEPT ![t] = "done"]
    /\ result' = [result EXCEPT ![t] = r]
    /\ UNCHANGED qa_frame

QaCatchClearsMetrics(t, e) ==
    /\ pc' = [pc EXCEPT ![t] = "done"]
    /\ result' = [result EXCEPT ![t] = Returned(None)]
    /\ answer' = [answer EXCEPT ![t] = [msg |-> Catch(e), exc |-> e]]
    /\ sources' = [sources EXCEPT ![t] = <<>>]
    /\ trace' = [trace EXCEPT ![t] = Append(@, "FAILED")]
    /\ metrics' = [metrics EXCEPT ![t] = NoMetrics]
    /\ UNCHANGED <<vectordb, llm>>

\* exception e reaches the try block of retriever_qa_with_metadata
QaCatch(t, e) ==
    /\ pc' = [pc EXCEPT ![t] = "done"]
    /\ IF Catch(e) = "escape"
       THEN /\ result' = [result EXCEPT ![t] = Raised(e)]
            /\ UNCHANGED <<answer, sources>>
       ELSE /\ result' = [result EXCEPT ![t] = Returned(None)]
            /\ answer' = [answer EXCEPT ![t] = [msg |-> Catch(e), exc |-> e]]
            /\ sources' = [sources EXCEPT ![t] = <<>>]
    /\ trace' = [trace EXCEPT ![t] = Append(@, "FAILED")]
    /\ UNCHANGED <<metrics, vectordb, llm>>

ReturnNoEmbedTime(t, callee, r) ==
    IF entry[t] = callee THEN TopReturn(t, r)
    ELSE IF r.kind = "raise" THEN QaCatch(t, r.exc)
    ELSE IF callee = "vector_database"
    THEN /\ vectordb' = [vectordb EXCEPT ![t] = r.val]
         /\ pc' = [pc EXCEPT ![t] = "llm_check"]
         /\ trace' = [trace EXCEPT ![t] = Append(@, "GENERATING")]
         /\ UNCHANGED <<result, metrics, llm, answer, sources>>
    ELSE /\ llm' = [llm EXCEPT ![t] = r.val]
         /\ pc' = [pc EXCEPT ![t] = "qa_invoke"]
         /\ UNCHANGED <<result, metrics, vectordb, answer, sources, trace>>

ReturnOnward(t, callee, r) ==
    IF entry[t] = callee THEN TopReturn(t, r)
    ELSE IF callee = "vector_database"
    THEN /\ vectordb' = [vectordb EXCEPT ![t] = r.val]
         /\ metrics' = [metrics EXCEPT ![t] = ("embed_time" :> 0) @@ @]
         /\ pc' = [pc EXCEPT ![t] = "llm_check"]
         /\ trace' = [trace EXCEPT ![t] = Append(@, "GENERATING")]
         /\ UNCHANGED <<result, llm, answer, sources>>
    ELSE /\ llm' = [llm EXCEPT ![t] = r.val]
         /\ pc' = [pc EXCEPT ![t] = "qa_invoke"]
         /\ UNCHANGED <<result, metrics, vectordb, answer, sources, trace>>

\* callee, run by thread t, ends with outcome r: either it is the top-level
\* call, or retriever_qa_with_metadata called it and goes on (QA_chain.py:148-153)
Return(t, callee, r) ==
    IF entry[t] = callee THEN TopReturn(t, r)
    ELSE IF r.kind = "raise" THEN QaCatch(t, r.exc)
    ELSE IF callee = "vector_database"
    THEN /\ vectordb' = [vectordb EXCEPT ![t] = r.val]
         /\ metrics' = [metrics EXCEPT ![t] = ("embed_time" :> 0) @@ @]
         /\ pc' = [pc EXCEPT ![t] = "llm_check"]
         /\ trace' = [trace EXCEPT ![t] = Append(@, "GENERATING")]
         /\ UNCHANGED <<result, llm, answer, sources>>
    ELSE /\ llm' = [llm EXCEPT ![t] = r.val]
         /\ pc' = [pc EXCEPT ![t] = "qa_invoke"]
         /\ UNCHANGED <<result, metrics, vectordb, answer, sources, trace>>

\* a new top-level call may start on thread t
CanCall(t) == pc[t] \in {"idle", "done"} /\ ncalls < MaxCalls

\* ------------------------------------------------ vector_database(chunks)
VdbEnterAlwaysHash(t, cs) ==
    chunks_hash' = [chunks_hash EXCEPT ![t] = _compute_chunks_hash(cs)]

\* vectordb.py:56-59: the empty-list check and the fingerprint
VdbEnter(t, cs) ==
    IF cs = <<>> THEN chunks_hash' = [chunks_hash EXCEPT ![t] = NoHash]
    ELSE chunks_hash' = [chunks_hash EXCEPT ![t] = _compute_chunks_hash(cs)]

\* a caller other than the orchestrator calls vector_database (QA_chain.py:33)
\* with one of the chunk lists of lists
VdbCallWith(t, lists) ==
    /\ CanCall(t)
    /\ \E cs \in lists :
        /\ chunks' = [chunks EXCEPT ![t] = cs]
        /\ VdbEnter(t, cs)
        /\ IF cs = <<>>
           THEN TopReturn(t, Raised("ValueError"))
           ELSE /\ pc' = [pc EXCEPT ![t] = "vdb_lookup"]
                /\ result' = [result EXCEPT ![t] = NoResult]
                /\ UNCHANGED qa_frame
    /\ entry' = [entry EXCEPT ![t] = "vector_database"]
    /\ retrieved' = [retrieved EXCEPT ![t] = NoDoc]
    /\ work' = [work EXCEPT ![t] = {}]
    /\ ncalls' = ncalls + 1
    /\ UNCHANGED <<env, embed_model, qa_args, singletons, stores, prev, ui>>

VdbCall(t) == VdbCallWith(t, ChunkLists)

CacheNeverHas(h) == FALSE

\* chunks_hash in _vectordb_cache
CacheHas(h) == h \in DOMAIN _vectordb_cache

VdbLookupSerial(t) ==
    /\ pc[t] = "vdb_lookup"
    /\ \A u \in Threads \ {t} :
          pc[u] \notin {"vdb_embed", "embed_load", "embed_return", "vdb_build"}
    /\ Goto(t, IF CacheHas(chunks_hash[t]) THEN "vdb_hit" ELSE "vdb_embed")
    /\ UNCHANGED <<env, entry, vdb_locals, retrieved, qa_args, singletons, stores, ncalls,
                   work, prev, ui>>

\* vectordb.py:62-70: the membership test, then a logging call on either branch
VdbLookup(t) ==
    /\ pc[t] = "vdb_lookup"
    /\ Goto(t, IF CacheHas(chunks_hash[t]) THEN "vdb_hit" ELSE "vdb_embed")
    /\ UNCHANGED <<env, entry, vdb_locals, retrieved, qa_args, singletons, stores, ncalls, work, prev, ui>>

\* vectordb.py:64
VdbHit(t) ==
    /\ pc[t] = "vdb_hit"
    /\ Return(t, "vector_database", Returned(_vectordb_cache[chunks_hash[t]]))
    /\ UNCHANGED <<env, entry, vdb_locals, retrieved, qa_args, singletons, stores, ncalls, work, prev, ui>>

\* ------------------------------------------------- get_embedding_model()
\* what the HuggingFaceEmbeddings constructor can raise when the weights
\* cannot be fetched or loaded; the fetch goes over the network, and a failure
\* of a socket is a ConnectionError
LoadErrors == {"OSError", "RuntimeError", "ConnectionError"}

EmbedCheckConfigOnly(t) ==
    /\ pc[t] = "vdb_embed"
    /\ IF _embed_model_instance # None
       THEN /\ embed_model' = [embed_model EXCEPT ![t] = _embed_model_instance]
            /\ Goto(t, "vdb_build")
       ELSE /\ UNCHANGED embed_model
            /\ IF ~env.config_exists THEN Return(t, "vector_database", Raised("FileNotFoundError"))
               ELSE Goto(t, "embed_load")
    /\ UNCHANGED <<env, entry, chunks, chunks_hash, retrieved, qa_args, singletons, stores,
                   ncalls, work, prev, ui>>

\* embed_model.py:59-82: the singleton test, load_hf_token() (EnvironmentError
\* is OSError) and the checks of config/model.yaml; vectordb.py:72 is the only caller
EmbedCheck(t) ==
    /\ pc[t] = "vdb_embed"
    /\ IF _embed_model_instance # None
       THEN /\ embed_model' = [embed_model EXCEPT ![t] = _embed_model_instance]
            /\ Goto(t, "vdb_build")
       ELSE /\ UNCHANGED embed_model
            /\ IF ~env.hf_token THEN Return(t, "vector_database", Raised("OSError"))
               ELSE IF ~env.config_exists THEN Return(t, "vector_database", Raised("FileNotFoundError"))
               ELSE IF ~env.embedding_model THEN Return(t, "vector_database", Raised("ValueError"))
               ELSE Goto(t, "embed_load")
    /\ UNCHANGED <<env, entry, chunks, chunks_hash, retrieved, qa_args, singletons, stores, ncalls, work, prev, ui>>

\* embed_model.py:89-93: the model is constructed and stored in the global
EmbedLoad(t) ==
    /\ pc[t] = "embed_load"
    /\ work' = [work EXCEPT ![t] = @ \cup {"embed_load"}]
    /\ \/ /\ embed_objs' = embed_objs + 1
          /\ _embed_model_instance' = embed_objs + 1
          /\ Goto(t, "embed_return")
       \/ /\ \E e \in LoadErrors : Return(t, "vector_database", Raised(e))
          /\ UNCHANGED <<embed_objs, _embed_model_instance>>
    /\ UNCHANGED <<env, entry, vdb_locals, retrieved, qa_args, _llm_instance,
                   llm_objs, stores, ncalls, prev, ui>>

\* embed_model.py:95-96: after the logging call the global is read again and returned
EmbedReturn(t) ==
    /\ pc[t] = "embed_return"
    /\ embed_model' = [embed_model EXCEPT ![t] = _embed_model_instance]
    /\ Goto(t, "vdb_build")
    /\ UNCHANGED <<env, entry, chunks, chunks_hash, retrieved, qa_args, singletons,
                   stores, ncalls, work, prev, ui>>

\* ------------------------------------------- vector_database, continued
\* the documents of a chunk list
DocsOf(cs) == {cs[i] : i \in 1..Len(cs)}

\* Chroma.from_documents(documents, embedding, persist_directory): embeds the
\* documents and adds them to the collection of the default name in the
\* persist directory, which it creates only if it does not exist yet; the
\* object returned is a handle on that collection
FromDocuments(cs) == chroma_collection \o cs

VdbBuildCachesFirst(t) ==
    /\ pc[t] = "vdb_build"
    /\ embed_calls' = embed_calls + 1
    /\ work' = [work EXCEPT ![t] = @ \cup {"build"}]
    /\ chroma_objs' = Append(chroma_objs, [hash |-> chunks_hash[t], docs |-> DocsOf(chunks[t])])
    /\ _vectordb_cache' = (chunks_hash[t] :> (Len(chroma_objs) + 1)) @@ _vectordb_cache
    /\ \/ /\ chroma_collection' = FromDocuments(chunks[t])
          /\ Return(t, "vector_database", Returned(Len(chroma_objs) + 1))
       \/ /\ Return(t, "vector_database", Raised("RuntimeError"))
          /\ UNCHANGED chroma_collection
    /\ UNCHANGED <<env, entry, vdb_locals, retrieved, qa_args, singletons, ncalls, prev, ui>>

\* vectordb.py:74-82: the build, the insertion into the cache and the return
VdbBuild(t) ==
    /\ pc[t] = "vdb_build"
    /\ embed_calls' = embed_calls + 1
    /\ work' = [work EXCEPT ![t] = @ \cup {"build"}]
    /\ \/ /\ chroma_collection' = FromDocuments(chunks[t])
          /\ chroma_objs' = Append(chroma_objs, [hash |-> chunks_hash[t], docs |-> DocsOf(chunks[t])])
          /\ _vectordb_cache' = (chunks_hash[t] :> (Len(chroma_objs) + 1)) @@ _vectordb_cache
          /\ Return(t, "vector_database", Returned(Len(chroma_objs) + 1))
       \/ /\ Return(t, "vector_database", Raised("RuntimeError"))
          /\ UNCHANGED <<chroma_collection, chroma_objs, _vectordb_cache>>
    /\ UNCHANGED <<env, entry, vdb_locals, retrieved, qa_args, singletons, ncalls, prev, ui>>

\* QA_chain.py:34: a similarity query on the returned store; which stored
\* document is nearest depends on the question, so any of them can come back
Retrieve(t) ==
    /\ pc[t] = "done"
    /\ entry[t] = "vector_database"
    /\ result[t].kind = "return"
    /\ retrieved[t] = NoDoc
    /\ \E i \in DOMAIN chroma_collection :
          retrieved' = [retrieved EXCEPT ![t] = chroma_collection[i]]
    /\ UNCHANGED <<env, pc, entry, result, vdb_locals, qa_args, qa_frame, singletons,
                   stores, ncalls, work, prev, ui>>

Next ==
    \E t \in Threads :
        \/ VdbCall(t)
        \/ VdbLookup(t)
        \/ VdbHit(t)
        \/ EmbedCheck(t)
        \/ EmbedLoad(t)
        \/ EmbedReturn(t)
        \/ VdbBuild(t)
        \/ Retrieve(t)

Spec == Init /\ [][Next]_vars

\* the chunk lists of ChunkLists, and the same lists as chunks of the next page
PagedChunkLists ==
    {[i \in DOMAIN cs |-> Chunk(cs[i].page_content, cs[i].page + d)] : cs \in ChunkLists, d \in {0, 1}}

\* a caller calls vector_database with chunks of one page or another
PagedCall(t) == VdbCallWith(t, PagedChunkLists)

NextPaged ==
    \E t \in Threads :
        \/ PagedCall(t)
        \/ VdbLookup(t)
        \/ VdbHit(t)
        \/ EmbedCheck(t)
        \/ EmbedLoad(t)
        \/ EmbedReturn(t)
        \/ VdbBuild(t)
        \/ Retrieve(t)

SpecPaged == Init /\ [][NextPaged]_vars

\* ------------------------------------------------------------ get_llm()
\* what the OllamaLLM constructor can raise on a setting of the wrong type
LlmLoadErrors == {"ValueError"}

\* a caller other than the orchestrator calls get_llm (QA_chain.py:64)
LlmCall(t) ==
    /\ CanCall(t)
    /\ entry' = [entry EXCEPT ![t] = "get_llm"]
    /\ pc' = [pc EXCEPT ![t] = "llm_check"]
    /\ result' = [result EXCEPT ![t] = NoResult]
    /\ work' = [work EXCEPT ![t] = {}]
    /\ ncalls' = ncalls + 1
    /\ UNCHANGED <<env, vdb_locals, retrieved, qa_args, qa_frame, singletons, stores, prev, ui>>

\* model.py:26-59: the singleton test and the checks of config/model.yaml
LlmCheck(t) ==
    /\ pc[t] = "llm_check"
    /\ IF _llm_instance # None THEN Return(t, "get_llm", Returned(_llm_instance))
       ELSE IF ~env.config_exists THEN Return(t, "get_llm", Raised("FileNotFoundError"))
       ELSE IF ~env.llm_model THEN Return(t, "get_llm", Raised("ValueError"))
       ELSE IF ~env.llm_base_url THEN Return(t, "get_llm", Raised("ValueError"))
       ELSE Goto(t, "llm_load")
    /\ UNCHANGED <<env, entry, vdb_locals, retrieved, qa_args, singletons, stores, ncalls, work, prev, ui>>

\* model.py:61-71: the client is constructed and stored in the global
LlmLoad(t) ==
    /\ pc[t] = "llm_load"
    /\ \/ /\ llm_objs' = llm_objs + 1
          /\ _llm_instance' = llm_objs + 1
          /\ Goto(t, "llm_return")
       \/ /\ \E e \in LlmLoadErrors : Return(t, "get_llm", Raised(e))
          /\ UNCHANGED <<llm_objs, _llm_instance>>
    /\ UNCHANGED <<env, entry, vdb_locals, retrieved, qa_args, _embed_model_instance,
                   embed_objs, stores, ncalls, work, prev, ui>>

\* model.py:73-79: after the logging call the global is read again and returned
LlmReturn(t) ==
    /\ pc[t] = "llm_return"
    /\ Return(t, "get_llm", Returned(_llm_instance))
    /\ UNCHANGED <<env, entry, vdb_locals, retrieved, qa_args, singletons, stores, ncalls, work, prev, ui>>

\* -------------------------------------------------------- document_loader
RECURSIVE LStrip(_)
LStrip(s) == IF s # <<>> /\ Head(s) \in Whitespace THEN LStrip(Tail(s)) ELSE s

RECURSIVE RStrip(_)
RStrip(s) ==
    IF s # <<>> /\ s[Len(s)] \in Whitespace THEN RStrip(SubSeq(s, 1, Len(s) - 1)) ELSE s

\* str.strip()
Strip(s) == RStrip(LStrip(s))

LowerChar(c) ==
    CASE c = "P" -> "p" [] c = "D" -> "d" [] c = "F" -> "f" [] OTHER -> c

\* str.lower()
Lower(s) == [i \in 1..Len(s) |-> LowerChar(s[i])]

PageChars == {"a", " "}
PageTexts == UNION {[1..k -> PageChars] : k \in 1..MaxPageLen}
PageLists == UNION {[1..k -> PageTexts] : k \in 0..MaxPages}

DotPdf == <<".", "p", "d", "f">>
DotPDF == <<".", "P", "D", "F">>
DotTxt == <<".", "t", "x", "t">>

\* a file on disk that the PDF parser reads as the pages pg
Pdf(sfx, pg) ==
    [none |-> FALSE, exists |-> TRUE, suffix |-> sfx, size |-> 1, parses |-> TRUE, pages |-> pg]

\* the file references a caller can pass: None, a path with no file behind
\* it, a file of another type, a file of 0 bytes, a file the parser rejects,
\* and well-formed files
Files ==
    { NoFile,
      [Pdf(DotPdf, <<>>) EXCEPT !.exists = FALSE],
      Pdf(DotTxt, <<>>),
      [Pdf(DotPdf, <<>>) EXCEPT !.size = 0, !.parses = FALSE],
      [Pdf(DotPdf, <<>>) EXCEPT !.parses = FALSE],
      Pdf(DotPDF, << <<"a">> >>) }
    \cup {Pdf(DotPdf, pg) : pg \in PageLists}

Ok(v) == [exc |-> "", val |-> v]
Fail(e) == [exc |-> e, val |-> <<>>]

PathChecksNoSuffix(f) ==
    IF f.none THEN "ValueError"
    ELSE IF ~f.exists THEN "FileNotFoundError"
    ELSE IF f.size = 0 THEN "ValueError"
    ELSE ""

PathChecksNoSize(f) ==
    IF f.none THEN "ValueError"
    ELSE IF ~f.exists THEN "FileNotFoundError"
    ELSE IF Lower(f.suffix) # DotPdf THEN "ValueError"
    ELSE ""

\* document_loader.py:28-49: the checks made before the file is opened; the
\* exception they raise, "" if none
PathChecks(f) ==
    IF f.none THEN "ValueError"
    ELSE IF ~f.exists THEN "FileNotFoundError"
    ELSE IF Lower(f.suffix) # DotPdf THEN "ValueError"
    ELSE IF f.size = 0 THEN "ValueError"
    ELSE ""

\* document_loader.py:51-69: PyPDFLoader(path).load() gives one Document per
\* page, with the 0-based page number as metadata
PyPDFLoad(f) ==
    IF ~f.parses THEN Fail("RuntimeError")
    ELSE IF f.pages = <<>> THEN Fail("RuntimeError")
    ELSE Ok([i \in 1..Len(f.pages) |-> Chunk(f.pages[i], i - 1)])

\* document_loader.py:28-69
document_loader(f) ==
    IF PathChecks(f) # "" THEN Fail(PathChecks(f)) ELSE PyPDFLoad(f)

\* the costly operations a call of document_loader performs: the parser
\* runs only when no check has raised
LoaderWork(f) == IF PathChecks(f) # "" THEN {} ELSE {"parse"}

\* a caller other than the orchestrator calls document_loader (QA_chain.py:31)
LoaderCall(t) ==
    /\ CanCall(t)
    /\ \E f \in Files :
        /\ file' = [file EXCEPT ![t] = f]
        /\ work' = [work EXCEPT ![t] = LoaderWork(f)]
        /\ LET r == document_loader(f)
           IN TopReturn(t, IF r.exc # "" THEN Raised(r.exc) ELSE Returned(r.val))
    /\ entry' = [entry EXCEPT ![t] = "document_loader"]
    /\ ncalls' = ncalls + 1
    /\ UNCHANGED <<env, vdb_locals, retrieved, query, splits, source_docs, singletons,
                   stores, prev, ui>>


\* ---------------------------------------------------------- text_splitter
RECURSIVE split_documents(_)
\* RecursiveCharacterTextSplitter.split_documents on pages shorter than
\* chunk_size: a page becomes one chunk, its text with the surrounding
\* whitespace removed, and a page that has only whitespace becomes none
split_documents(data) ==
    IF data = <<>> THEN <<>>
    ELSE (IF Strip(Head(data).page_content) = <<>> THEN <<>>
          ELSE << Chunk(Strip(Head(data).page_content), Head(data).page) >>)
         \o split_documents(Tail(data))

\* chunk.page_content.strip() is not empty
NonBlank(c) == Strip(c.page_content) # <<>>

RECURSIVE KeepNonBlank(_)
\* text_splitter.py:37: [chunk for chunk in chunks if chunk.page_content.strip()]
KeepNonBlank(cs) ==
    IF cs = <<>> THEN <<>>
    ELSE (IF NonBlank(Head(cs)) THEN <<Head(cs)>> ELSE <<>>) \o KeepNonBlank(Tail(cs))

text_splitter_unchecked(data) == Ok(KeepNonBlank(split_documents(data)))

\* text_splitter.py:22-46
text_splitter(data) ==
    IF data = <<>> THEN Fail("ValueError")
    ELSE LET cs == KeepNonBlank(split_documents(data))
         IN IF cs = <<>> THEN Fail("ValueError") ELSE Ok(cs)

\* ------------------------------------------ retriever_qa_with_metadata
QueryChars == {"q", " "}
QueryTexts == UNION {[1..k -> QueryChars] : k \in 0..MaxQueryLen}

\* the questions a caller can pass: strings, and a value that is not a
\* string, of which text is what str() makes ("N" stands for "None")
Queries ==
    {[is_str |-> TRUE, text |-> x] : x \in QueryTexts}
    \cup {[is_str |-> FALSE, text |-> <<"N">>]}

MsgUpload == "Please upload a PDF document before asking a question."
MsgEnter == "Please enter a question about the document."
MsgTooLong == "Your question is too long (max 2,000 characters)."

ValidateNoBlank(f, q) ==
    IF f.none THEN MsgUpload
    ELSE IF Len(Strip(q.text)) > QUERY_MAX THEN MsgTooLong
    ELSE ""

ValidateNoLength(f, q) ==
    IF f.none THEN MsgUpload
    ELSE IF q.text = <<>> \/ Strip(q.text) = <<>> THEN MsgEnter
    ELSE ""

\* QA_chain.py:112-128: the coercion of the question and the validation
Validate(f, q) ==
    IF f.none THEN MsgUpload
    ELSE IF q.text = <<>> \/ Strip(q.text) = <<>> THEN MsgEnter
    ELSE IF Len(Strip(q.text)) > QUERY_MAX THEN MsgTooLong
    ELSE ""

\* the query that has just ended on thread t, as the next one will see it
Summary(t) ==
    IF pc[t] = "done" /\ entry[t] = "retriever_qa_with_metadata" /\ answer[t].msg = "answer"
    THEN [ok |-> TRUE, file |-> file[t], query |-> query[t],
          num_pages |-> metrics[t].num_pages, num_chunks |-> metrics[t].num_chunks]
    ELSE NoPrev

\* QA_chain.py:98-112: the call with its arguments, and metrics = {}
QaEnter(t, f, q) ==
    /\ file' = [file EXCEPT ![t] = f]
    /\ query' = [query EXCEPT ![t] = q]
    /\ prev' = [prev EXCEPT ![t] = Summary(t)]
    /\ trace' = [trace EXCEPT ![t] = <<"VALIDATING">>]
    /\ work' = [work EXCEPT ![t] = {}]
    /\ answer' = [answer EXCEPT ![t] = NoAnswer]
    /\ result' = [result EXCEPT ![t] = NoResult]
    /\ pc' = [pc EXCEPT ![t] = "qa_validate"]
    /\ metrics' = [metrics EXCEPT ![t] = NoMetrics]
    /\ sources' = [sources EXCEPT ![t] = <<>>]
    /\ splits' = [splits EXCEPT ![t] = <<>>]
    /\ source_docs' = [source_docs EXCEPT ![t] = <<>>]
    /\ chunks' = [chunks EXCEPT ![t] = <<>>]
    /\ chunks_hash' = [chunks_hash EXCEPT ![t] = NoHash]
    /\ embed_model' = [embed_model EXCEPT ![t] = None]
    /\ vectordb' = [vectordb EXCEPT ![t] = None]
    /\ llm' = [llm EXCEPT ![t] = None]
    /\ retrieved' = [retrieved EXCEPT ![t] = NoDoc]
    /\ ncalls' = ncalls + 1
    /\ UNCHANGED <<env, singletons, stores>>

\* a caller calls retriever_qa_with_metadata(file, query)
QaCall(t) ==
    /\ CanCall(t)
    /\ \E f \in Files, q \in Queries : QaEnter(t, f, q)
    /\ entry' = [entry EXCEPT ![t] = "retriever_qa_with_metadata"]
    /\ UNCHANGED ui

\* QA_chain.py:114-128: the coercion, the checks in their order, and the
\* strip that precedes the check of the length
QaValidate(t) ==
    /\ pc[t] = "qa_validate"
    /\ LET m == Validate(file[t], query[t])
           text == IF m \in {MsgUpload, MsgEnter} THEN query[t].text ELSE Strip(query[t].text)
       IN /\ query' = [query EXCEPT ![t] = [is_str |-> TRUE, text |-> text]]
          /\ IF m # ""
             THEN /\ answer' = [answer EXCEPT ![t] = [msg |-> m, exc |-> ""]]
                  /\ result' = [result EXCEPT ![t] = Returned(None)]
                  /\ pc' = [pc EXCEPT ![t] = "done"]
                  /\ trace' = [trace EXCEPT ![t] = Append(@, "FAILED")]
             ELSE /\ pc' = [pc EXCEPT ![t] = "qa_load"]
                  /\ trace' = [trace EXCEPT ![t] = Append(@, "LOADING")]
                  /\ UNCHANGED <<answer, result>>
    /\ UNCHANGED <<env, entry, vdb_locals, retrieved, file, splits, source_docs, metrics, vectordb, llm,
                   sources, singletons, stores, ncalls, work, prev, ui>>

\* QA_chain.py:134-138
QaLoad(t) ==
    /\ pc[t] = "qa_load"
    /\ LET r == document_loader(file[t])
       IN IF r.exc # ""
          THEN QaCatch(t, r.exc) /\ UNCHANGED splits
          ELSE /\ splits' = [splits EXCEPT ![t] = r.val]
               /\ metrics' = [metrics EXCEPT ![t] =
                                 ("load_time" :> 0) @@ ("num_pages" :> Len(r.val)) @@ @]
               /\ pc' = [pc EXCEPT ![t] = "qa_chunk"]
               /\ trace' = [trace EXCEPT ![t] = Append(@, "CHUNKING")]
               /\ UNCHANGED <<result, vectordb, llm, answer, sources>>
    /\ work' = [work EXCEPT ![t] = @ \cup LoaderWork(file[t])]
    /\ UNCHANGED <<env, entry, vdb_locals, retrieved, file, query, source_docs, singletons,
                   stores, ncalls, prev, ui>>

\* QA_chain.py:140-144
QaChunk(t) ==
    /\ pc[t] = "qa_chunk"
    /\ LET r == text_splitter(splits[t])
       IN IF r.exc # ""
          THEN QaCatch(t, r.exc) /\ UNCHANGED chunks
          ELSE /\ chunks' = [chunks EXCEPT ![t] = r.val]
               /\ metrics' = [metrics EXCEPT ![t] =
                                 ("chunk_time" :> 0) @@ ("num_chunks" :> Len(r.val)) @@ @]
               /\ pc' = [pc EXCEPT ![t] = "qa_index"]
               /\ trace' = [trace EXCEPT ![t] = Append(@, "INDEXING")]
               /\ UNCHANGED <<result, vectordb, llm, answer, sources>>
    /\ UNCHANGED <<env, entry, chunks_hash, embed_model, retrieved, qa_args, singletons,
                   stores, ncalls, work, prev, ui>>

\* QA_chain.py:146-148: the call of vector_database
QaIndex(t) ==
    /\ pc[t] = "qa_index"
    /\ VdbEnter(t, chunks[t])
    /\ IF chunks[t] = <<>> THEN QaCatch(t, "ValueError") ELSE Goto(t, "vdb_lookup")
    /\ UNCHANGED <<env, entry, chunks, embed_model, retrieved, qa_args, singletons,
                   stores, ncalls, work, prev, ui>>

\* what the chain can raise: the backend is unreachable, or anything else
InvokeErrors == {"ConnectionError", "RuntimeError"}

\* the lists of n distinct positions of the collection
Rankings(n) ==
    {r \in [1..n -> DOMAIN chroma_collection] : \A i, j \in 1..n : r[i] = r[j] => i = j}

Min(a, b) == IF a < b THEN a ELSE b

\* the page "?" that doc.metadata.get("page", "?") gives for a document
\* with no page in its metadata (QA_chain.py:175)
Unknown == -1

ExcerptStripFirst(text) == Slice(Strip(text), EXCERPT_LEN)

\* QA_chain.py:181: doc.page_content[:200].strip()
Excerpt(text) == Strip(Slice(text, EXCERPT_LEN))

DedupNone(docs, seen) ==
    [i \in DOMAIN docs |-> [page |-> docs[i].page, excerpt |-> Excerpt(docs[i].page_content)]]

RECURSIVE DedupKeepsUnknown(_, _)
DedupKeepsUnknown(docs, seen) ==
    IF docs = <<>> THEN <<>>
    ELSE IF Head(docs).page \in seen \ {Unknown} THEN DedupKeepsUnknown(Tail(docs), seen)
    ELSE << [page |-> Head(docs).page, excerpt |-> Excerpt(Head(docs).page_content)] >>
         \o DedupKeepsUnknown(Tail(docs), seen \cup {Head(docs).page})

RECURSIVE DedupByPage(_, _)
\* QA_chain.py:172-182: one source per page, the first seen, with its excerpt
DedupByPage(docs, seen) ==
    IF docs = <<>> THEN <<>>
    ELSE IF Head(docs).page \in seen THEN DedupByPage(Tail(docs), seen)
    ELSE << [page |-> Head(docs).page, excerpt |-> Excerpt(Head(docs).page_content)] >>
         \o DedupByPage(Tail(docs), seen \cup {Head(docs).page})

\* QA_chain.py:169: response.get("source_documents", []): the TOP_K nearest
\* documents of the collection behind the store, in an order that depends on
\* the question, or the default [] when the response has no such key
SourceDocuments ==
    {<<>>} \cup {[i \in DOMAIN r |-> chroma_collection[r[i]]] :
                    r \in Rankings(Min(TOP_K, Len(chroma_collection)))}

\* QA_chain.py:151-184: the call of the chain and what is made of its response
QaInvoke(t) ==
    /\ pc[t] = "qa_invoke"
    /\ \/ /\ \E e \in InvokeErrors : QaCatch(t, e)
          /\ UNCHANGED source_docs
       \/ \E docs \in SourceDocuments :
               /\ metrics' = [metrics EXCEPT ![t] =
                                 ("generation_time" :> 0) @@ ("total_latency" :> 0)
                                 @@ ("num_sources" :> Len(docs)) @@ @]
               /\ source_docs' = [source_docs EXCEPT ![t] = docs]
               /\ sources' = [sources EXCEPT ![t] = DedupByPage(docs, {})]
               /\ answer' = [answer EXCEPT ![t] = [msg |-> "answer", exc |-> ""]]
               /\ result' = [result EXCEPT ![t] = Returned(None)]
               /\ pc' = [pc EXCEPT ![t] = "done"]
               /\ trace' = [trace EXCEPT ![t] = Append(@, "DONE")]
               /\ UNCHANGED <<vectordb, llm>>
    /\ UNCHANGED <<env, entry, vdb_locals, retrieved, file, query, splits, singletons, stores,
                   ncalls, work, prev, ui>>

\* the worker that processes the queries, one at a time: a query runs as
\* one sequential pipeline
QaThreads == {1}

NextQA ==
    \E t \in QaThreads :
        \/ QaCall(t)
        \/ QaValidate(t)
        \/ QaLoad(t)
        \/ QaChunk(t)
        \/ QaIndex(t)
        \/ VdbLookup(t)
        \/ VdbHit(t)
        \/ EmbedCheck(t)
        \/ EmbedLoad(t)
        \/ EmbedReturn(t)
        \/ VdbBuild(t)
        \/ LlmCheck(t)
        \/ LlmLoad(t)
        \/ LlmReturn(t)
        \/ QaInvoke(t)

SpecQA == Init /\ [][NextQA]_vars

\* concurrent callers of get_llm
NextLlm ==
    \E t \in Threads :
        \/ LlmCall(t)
        \/ LlmCheck(t)
        \/ LlmLoad(t)
        \/ LlmReturn(t)

SpecLlm == Init /\ [][NextLlm]_vars

\* the documents a retriever can give back: texts with inner and outer
\* whitespace, on a page or with no page in the metadata
SourceTexts == UNION {[1..k -> {"a", " "}] : k \in 1..MaxTextLen}
SourceDocs == {Chunk(x, p) : x \in SourceTexts, p \in {Unknown, 0, 1}}
SourceDocLists == UNION {[1..k -> SourceDocs] : k \in 0..MaxDocs}

\* QA_chain.py:168-182 on a response whose source_documents are the
\* local source_docs of thread t
SourcesCall(t) ==
    /\ pc[t] = "idle"
    /\ entry' = [entry EXCEPT ![t] = "sources"]
    /\ sources' = [sources EXCEPT ![t] = DedupByPage(source_docs[t], {})]
    /\ metrics' = [metrics EXCEPT ![t] = ("num_sources" :> Len(source_docs[t])) @@ @]
    /\ pc' = [pc EXCEPT ![t] = "done"]
    /\ ncalls' = ncalls + 1
    /\ UNCHANGED <<env, result, vdb_locals, retrieved, qa_args, vectordb, llm, answer, trace,
                   singletons, stores, work, prev, ui>>

\* a response of the chain, with any list of source documents
InitSources ==
    /\ env = EnvOk
    /\ pc = [t \in Threads |-> "idle"]
    /\ entry = [t \in Threads |-> "none"]
    /\ result = [t \in Threads |-> NoResult]
    /\ chunks = [t \in Threads |-> <<>>]
    /\ chunks_hash = [t \in Threads |-> NoHash]
    /\ embed_model = [t \in Threads |-> None]
    /\ retrieved = [t \in Threads |-> NoDoc]
    /\ file = [t \in Threads |-> NoFile]
    /\ query = [t \in Threads |-> NoQuery]
    /\ splits = [t \in Threads |-> <<>>]
    /\ \E docs \in SourceDocLists :
          source_docs = [t \in Threads |-> IF t \in QaThreads THEN docs ELSE <<>>]
    /\ metrics = [t \in Threads |-> NoMetrics]
    /\ vectordb = [t \in Threads |-> None]
    /\ llm = [t \in Threads |-> None]
    /\ answer = [t \in Threads |-> NoAnswer]
    /\ sources = [t \in Threads |-> <<>>]
    /\ _vectordb_cache = [h \in {} |-> None]
    /\ _embed_model_instance = None
    /\ _llm_instance = None
    /\ chroma_objs = <<>>
    /\ chroma_collection = <<>>
    /\ embed_objs = 0
    /\ llm_objs = 0
    /\ embed_calls = 0
    /\ ncalls = 0
    /\ trace = [t \in Threads |-> <<>>]
    /\ work = [t \in Threads |-> {}]
    /\ prev = [t \in Threads |-> NoPrev]
    /\ chatbot = <<>>
    /\ pdf_input = NoFile
    /\ metrics_panel = "STANDBY"
    /\ pending = FALSE
    /\ bot_pc = [t \in Threads |-> "idle"]
    /\ chat_history = [t \in Threads |-> <<>>]
    /\ words = [t \in Threads |-> <<>>]
    /\ streamed = [t \in Threads |-> <<>>]
    /\ idx = [t \in Threads |-> 0]
    /\ yields = [t \in Threads |-> <<>>]

NextSources == \E t \in QaThreads : SourcesCall(t)

SpecSources == InitSources /\ [][NextSources]_vars

\* the page lists document_loader can give, and the empty one
PageDocLists == {[i \in DOMAIN pg |-> Chunk(pg[i], i - 1)] : pg \in PageLists}

\* a caller other than the orchestrator calls text_splitter (QA_chain.py:32)
SplitterCall(t) ==
    /\ CanCall(t)
    /\ \E data \in PageDocLists :
        /\ splits' = [splits EXCEPT ![t] = data]
        /\ LET r == text_splitter(data)
           IN TopReturn(t, IF r.exc # "" THEN Raised(r.exc) ELSE Returned(r.val))
    /\ entry' = [entry EXCEPT ![t] = "text_splitter"]
    /\ work' = [work EXCEPT ![t] = {}]
    /\ ncalls' = ncalls + 1
    /\ UNCHANGED <<env, vdb_locals, retrieved, file, query, source_docs, singletons,
                   stores, prev, ui>>

\* successive calls of document_loader and text_splitter
NextLoader ==
    \E t \in QaThreads :
        \/ LoaderCall(t)
        \/ SplitterCall(t)

SpecLoader == Init /\ [][NextLoader]_vars

\* ------------------------------------------------------------ properties
Done(t) == pc[t] = "done" /\ entry[t] = "vector_database" /\ result[t].kind = "return"

\* the Chroma objects built for fingerprint h
BuiltFor(h) == {i \in DOMAIN chroma_objs : chroma_objs[i].hash = h}

\* texts a and b agree on their first PREFIX_LEN characters
SamePrefix(a, b) ==
    \A j \in 1..PREFIX_LEN :
        /\ (j <= Len(a)) <=> (j <= Len(b))
        /\ (j <= Len(a)) => a[j] = b[j]

\* C1: for every fingerprint, the index build (embedding plus index
\* construction) is performed at most once, also when several callers race
\* on a fingerprint that is not yet in the cache
C1_OneBuildPerFingerprint ==
    \A i, j \in DOMAIN chroma_objs : chroma_objs[i].hash = chroma_objs[j].hash => i = j

\* C2: all calls that return for one fingerprint return the same instance,
\* the one stored in the cache under that fingerprint
C2_RacersShareInstance ==
    \A t \in Threads :
        Done(t) => /\ chunks_hash[t] \in DOMAIN _vectordb_cache
                   /\ result[t].val = _vectordb_cache[chunks_hash[t]]

\* C3: a call whose fingerprint is a key of the cache takes the hit branch,
\* and the hit branch returns the stored instance without loading or calling
\* the embedding model, without building an index and without changing the cache
C3_CacheHitReturnsStored ==
    [][\A t \in Threads :
        /\ (pc[t] = "vdb_lookup" /\ pc'[t] # "vdb_lookup"
            /\ chunks_hash[t] \in DOMAIN _vectordb_cache) => pc'[t] = "vdb_hit"
        /\ (pc[t] = "vdb_hit" /\ pc'[t] # "vdb_hit") =>
              /\ result'[t] = Returned(_vectordb_cache[chunks_hash[t]])
              /\ _vectordb_cache' = _vectordb_cache
              /\ chroma_objs' = chroma_objs
              /\ chroma_collection' = chroma_collection
              /\ embed_calls' = embed_calls
              /\ embed_objs' = embed_objs]_vars

\* two calls with identical chunk lists have returned one instance after one build
C3_Witness ==
    \E t1, t2 \in Threads :
        /\ t1 # t2 /\ Done(t1) /\ Done(t2)
        /\ chunks[t1] = chunks[t2]
        /\ result[t1].val = result[t2].val
        /\ Len(chroma_objs) = 1 /\ embed_calls = 1

\* C4 as stated: two calls whose chunk lists differ in content return
\* distinct instances
C4_DifferentContentDistinctIndex ==
    \A t1, t2 \in Threads :
        (Done(t1) /\ Done(t2) /\ chunks[t1] # chunks[t2]) => result[t1].val # result[t2].val

\* C4 as amended: two calls whose chunk lists differ in the concatenation of
\* the encoded first PREFIX_LEN characters of their chunks return distinct
\* instances
C4_DifferentPrefixesDistinctIndex ==
    \A t1, t2 \in Threads :
        (Done(t1) /\ Done(t2) /\ HasherUpdates(chunks[t1], 1) # HasherUpdates(chunks[t2], 1))
            => result[t1].val # result[t2].val

C4_Witness ==
    \E t1, t2 \in Threads :
        /\ Done(t1) /\ Done(t2)
        /\ HasherUpdates(chunks[t1], 1) # HasherUpdates(chunks[t2], 1)
        /\ result[t1].val # result[t2].val

\* C5: a query on the store returned for a chunk list gives only documents
\* of chunk lists with that fingerprint, whatever else has been indexed in
\* the process and the persist directory
C5_StoreServesOwnFingerprintOnly ==
    \A t \in Threads :
        (Done(t) /\ retrieved[t] # NoDoc) =>
            \E i \in BuiltFor(chunks_hash[t]) : retrieved[t] \in chroma_objs[i].docs

\* C6: once a fingerprint maps to an instance in the cache it maps to that
\* instance for ever
C6_CacheEntriesStable ==
    [][\A h \in DOMAIN _vectordb_cache :
        h \in DOMAIN _vectordb_cache' /\ _vectordb_cache'[h] = _vectordb_cache[h]]_vars

\* C7: two chunk lists of the same length whose chunks agree, position by
\* position, on the first PREFIX_LEN characters have the same fingerprint
C7_PrefixBoundedFingerprint ==
    \A t1, t2 \in Threads :
        ( /\ chunks_hash[t1] # NoHash /\ chunks_hash[t2] # NoHash
          /\ Len(chunks[t1]) = Len(chunks[t2])
          /\ \A i \in 1..Len(chunks[t1]) :
                SamePrefix(chunks[t1][i].page_content, chunks[t2][i].page_content) )
        => chunks_hash[t1] = chunks_hash[t2]

C7_Witness ==
    \E t1, t2 \in Threads :
        /\ chunks_hash[t1] # NoHash /\ chunks_hash[t2] # NoHash
        /\ chunks[t1] # chunks[t2]
        /\ Len(chunks[t1]) = Len(chunks[t2])
        /\ \A i \in 1..Len(chunks[t1]) :
              SamePrefix(chunks[t1][i].page_content, chunks[t2][i].page_content)
        /\ chunks_hash[t1] = chunks_hash[t2]

\* C8: the embedding model is constructed at most once in a process
C8_EmbeddingLoadedOnce == embed_objs <= 1

\* C9: the LLM client is constructed at most once in a process, and all
\* calls of get_llm that return, return one instance
C9_LlmConstructedOnce ==
    /\ llm_objs <= 1
    /\ \A t1, t2 \in Threads :
          ( /\ pc[t1] = "done" /\ entry[t1] = "get_llm" /\ result[t1].kind = "return"
            /\ pc[t2] = "done" /\ entry[t2] = "get_llm" /\ result[t2].kind = "return" )
          => result[t1].val = result[t2].val

QaDone(t) == pc[t] = "done" /\ entry[t] = "retriever_qa_with_metadata"

Messages ==
    {MsgUpload, MsgEnter, MsgTooLong, "Input error", "Could not connect",
     "An unexpected error occurred", "answer"}

\* C10: every call of retriever_qa_with_metadata that ends, ends by
\* returning a triple (message, sources, metrics), whichever stage failed
\* with whichever exception
C10_NoExceptionEscapes ==
    \A t \in Threads :
        QaDone(t) => /\ result[t].kind = "return"
                     /\ answer[t].msg \in Messages

\* every class of exception has been raised by some stage of some query
\* and turned into a message: here one of each handler
C10_Witness ==
    \E t \in Threads :
        /\ QaDone(t) /\ result[t].kind = "return"
        /\ answer[t].exc = "RuntimeError"
        /\ answer[t].msg = "An unexpected error occurred"
        /\ "embed_time" \in DOMAIN metrics[t]

\* thread t takes the step that validates the arguments of its query
Validates(t) == pc[t] = "qa_validate" /\ pc'[t] # "qa_validate"

\* C11: a call with no document reference, and a call whose question is
\* empty or only whitespace, is rejected in VALIDATING: it returns, as a
\* normal result, a user-facing message with empty sources and empty
\* metrics, and no stage (load, chunk, index, generate) is invoked for it
C11_RejectedBeforeAnyStage ==
    [][\A t \in Threads :
        (Validates(t) /\ (file[t].none \/ Strip(query[t].text) = <<>>)) =>
            /\ pc'[t] = "done"
            /\ result'[t] = Returned(None)
            /\ answer'[t] = [msg |-> IF file[t].none THEN MsgUpload ELSE MsgEnter, exc |-> ""]
            /\ sources'[t] = <<>>
            /\ metrics'[t] = NoMetrics
            /\ trace'[t] = <<"VALIDATING", "FAILED">>
            /\ work'[t] = {}
            /\ splits'[t] = <<>> /\ chunks'[t] = <<>>
            /\ vectordb'[t] = None /\ llm'[t] = None
            /\ UNCHANGED <<stores, singletons>>]_vars

\* a question of whitespace only, about a document that was given, has
\* been rejected
C11_Witness ==
    \E t \in Threads :
        /\ pc[t] = "done" /\ entry[t] = "retriever_qa_with_metadata"
        /\ ~file[t].none
        /\ query[t].text # <<>> /\ Strip(query[t].text) = <<>>
        /\ answer[t].msg = MsgEnter
        /\ trace[t] = <<"VALIDATING", "FAILED">>

\* C12 as stated: with a document reference present, every non-blank
\* question longer than QUERY_MAX is rejected with the too-long message, and
\* every non-blank question of length at most QUERY_MAX goes on to LOADING
C12_LengthBound ==
    [][\A t \in Threads :
        (Validates(t) /\ ~file[t].none /\ Strip(query[t].text) # <<>>) =>
            IF Len(query[t].text) > QUERY_MAX
            THEN pc'[t] = "done" /\ answer'[t].msg = MsgTooLong
            ELSE pc'[t] = "qa_load"]_vars

\* C12 as amended: the length that is bounded is the length of the question
\* after its surrounding whitespace is removed
C12_TrimmedLengthBound ==
    [][\A t \in Threads :
        (Validates(t) /\ ~file[t].none /\ Strip(query[t].text) # <<>>) =>
            IF Len(Strip(query[t].text)) > QUERY_MAX
            THEN /\ pc'[t] = "done"
                 /\ result'[t] = Returned(None)
                 /\ answer'[t].msg = MsgTooLong
                 /\ sources'[t] = <<>> /\ metrics'[t] = NoMetrics
            ELSE /\ pc'[t] = "qa_load"
                 /\ query'[t].text = Strip(query[t].text)
                 /\ trace'[t] = <<"VALIDATING", "LOADING">>]_vars

\* a question whose trimmed text is longer than QUERY_MAX has been rejected
C12_Witness ==
    \E t \in Threads :
        /\ pc[t] = "done" /\ entry[t] = "retriever_qa_with_metadata"
        /\ Len(query[t].text) > QUERY_MAX
        /\ query[t].text = Strip(query[t].text)
        /\ answer[t].msg = MsgTooLong

\* the stages the query of thread t has entered
Entered(t) == {trace[t][i] : i \in DOMAIN trace[t]}

\* the stage in which the query of thread t failed
FailedIn(t, stage) ==
    /\ pc[t] = "done" /\ entry[t] = "retriever_qa_with_metadata"
    /\ Len(trace[t]) >= 2
    /\ trace[t][Len(trace[t])] = "FAILED"
    /\ trace[t][Len(trace[t]) - 1] = stage

\* C13: an input, validation or empty-content error raised by a stage gives
\* the message that starts with 'Input error:'; in particular a document
\* that the parser reads without error and that has no page, and a document
\* whose pages give no usable chunk, both give it and not the message for
\* an unexpected error
C13_EmptyContentIsInputError ==
    \A t \in Threads :
        /\ (QaDone(t) /\ answer[t].exc \in {"ValueError", "FileNotFoundError"})
              => answer[t].msg = "Input error"
        /\ ( /\ QaDone(t) /\ "LOADING" \in Entered(t)
              /\ PathChecks(file[t]) = "" /\ file[t].parses
              /\ \A i \in DOMAIN file[t].pages : Strip(file[t].pages[i]) = <<>> )
              => answer[t].msg = "Input error"

\* C14: when the generation backend cannot be reached during a query with
\* a valid document and question, the query returns the 'Could not connect
\* to the Ollama server' message, which is not the message for an
\* unexpected error
C14_UnreachableBackendMessage ==
    \A t \in Threads :
        (FailedIn(t, "GENERATING") /\ answer[t].exc = "ConnectionError") =>
            /\ result[t] = Returned(None)
            /\ answer[t].msg = "Could not connect"
            /\ answer[t].msg # "An unexpected error occurred"
            /\ sources[t] = <<>>

\* a query has been loaded, chunked and indexed, and the backend was then
\* found unreachable
C14_Witness ==
    \E t \in Threads :
        /\ FailedIn(t, "GENERATING") /\ answer[t].exc = "ConnectionError"
        /\ vectordb[t] # None /\ llm[t] # None
        /\ answer[t].msg = "Could not connect"

\* C15: document_loader raises an input error, and does not run the PDF
\* parser, when the reference is None, when the path does not exist, when
\* the extension is not .pdf in any case of letters, and when the file has
\* zero length
C15_ChecksBeforeParser ==
    \A t \in Threads :
        ( /\ pc[t] = "done" /\ entry[t] = "document_loader"
          /\ \/ file[t].none
             \/ ~file[t].exists
             \/ Lower(file[t].suffix) # DotPdf
             \/ file[t].size = 0 )
        => /\ result[t].kind = "raise"
           /\ result[t].exc \in {"ValueError", "FileNotFoundError"}
           /\ "parse" \notin work[t]

\* a file that exists and is not a PDF has been refused without a parse
C15_Witness ==
    \E t \in Threads :
        /\ pc[t] = "done" /\ entry[t] = "document_loader"
        /\ file[t].exists /\ file[t].suffix = DotTxt
        /\ result[t] = Raised("ValueError") /\ work[t] = {}

\* C16: a query that fails in LOADING or CHUNKING, as one on a file of 0
\* bytes does, returns the failure as its message, and no index is built
\* for it: no step of a query that has not entered INDEXING loads or calls
\* the embedding model or changes the index cache
C16_NoIndexWhenLoadOrChunkFails ==
    [][\A t \in Threads :
        (entry'[t] = "retriever_qa_with_metadata" /\ "INDEXING" \notin Entered(t)') =>
            /\ UNCHANGED <<stores, singletons>>
            /\ work'[t] \subseteq {"parse"}
            /\ (FailedIn(t, "LOADING")' \/ FailedIn(t, "CHUNKING")') =>
                  /\ result'[t] = Returned(None)
                  /\ answer'[t].exc # ""
                  /\ answer'[t].msg \in {"Input error", "An unexpected error occurred"}
                  /\ sources'[t] = <<>>
            /\ (pc'[t] = "done" /\ file'[t].exists /\ file'[t].suffix = DotPdf
                 /\ file'[t].size = 0 /\ Strip(query'[t].text) # <<>>
                 /\ Len(query'[t].text) <= QUERY_MAX) =>
                  /\ FailedIn(t, "LOADING")'
                  /\ answer'[t].msg = "Input error"]_vars

\* after a query that built an index, a query on a file of 0 bytes has
\* failed in LOADING
C16_Witness ==
    \E t \in Threads :
        /\ FailedIn(t, "LOADING")
        /\ file[t].exists /\ file[t].size = 0
        /\ answer[t].msg = "Input error"
        /\ DOMAIN _vectordb_cache # {} /\ embed_calls = 1

StageOrder == <<"VALIDATING", "LOADING", "CHUNKING", "INDEXING", "GENERATING", "DONE">>

\* sequence a is an initial part of sequence b
IsPrefix(a, b) == Len(a) <= Len(b) /\ \A i \in 1..Len(a) : a[i] = b[i]

\* C17: the stages of a query are entered in the order VALIDATING, LOADING,
\* CHUNKING, INDEXING, GENERATING, DONE; a stage is entered only after all
\* the stages before it have succeeded; a failure in a stage ends the query
\* in FAILED, and no stage is entered after that
C17_StagesInOrder ==
    \A t \in Threads :
        entry[t] = "retriever_qa_with_metadata" =>
            LET tr == trace[t]
                last == tr[Len(tr)]
            IN /\ tr # <<>>
               /\ \/ IsPrefix(tr, StageOrder)
                  \/ /\ last = "FAILED"
                     /\ IsPrefix(SubSeq(tr, 1, Len(tr) - 1), SubSeq(StageOrder, 1, 5))
               /\ (last \in {"FAILED", "DONE"}) <=> (pc[t] = "done")
               /\ "LOADING" \in Entered(t) => Validate(file[t], query[t]) = ""
               /\ "CHUNKING" \in Entered(t) =>
                     splits[t] # <<>> /\ "num_pages" \in DOMAIN metrics[t]
               /\ "INDEXING" \in Entered(t) =>
                     chunks[t] # <<>> /\ "num_chunks" \in DOMAIN metrics[t]
               /\ "GENERATING" \in Entered(t) =>
                     vectordb[t] # None /\ "embed_time" \in DOMAIN metrics[t]
               /\ "DONE" \in Entered(t) => llm[t] # None /\ answer[t].msg = "answer"
               /\ last = "FAILED" => answer[t].msg \notin {"", "answer"}

\* a query has failed in INDEXING, after the embedding model was loaded
C17_Witness ==
    \E t \in Threads :
        /\ trace[t] = <<"VALIDATING", "LOADING", "CHUNKING", "INDEXING", "FAILED">>
        /\ work[t] = {"parse", "embed_load", "build"}
        /\ vectordb[t] = None /\ llm[t] = None

\* C18: when llm_config.model or llm_config.base_url is missing, a query
\* fails before any expensive work (the load of the embedding model, the
\* embedding of the chunks, the build of the index) has started
C18_ConfigFailsBeforeExpensiveWork ==
    \A t \in Threads :
        ((~env.llm_model \/ ~env.llm_base_url) /\ FailedIn(t, "GENERATING")
         /\ answer[t].exc = "ValueError") =>
            work[t] \cap {"embed_load", "build"} = {}

\* C19: a missing HF_TOKEN is found at startup, before any query is
\* processed, and no query ends in a failure for the missing credential
C19_NoQueryFailsOnCredential ==
    \A t \in Threads :
        (QaDone(t) /\ ~env.hf_token) =>
            ~(FailedIn(t, "INDEXING") /\ answer[t].exc = "OSError" /\ work[t] = {"parse"})

\* C20: when two queries in sequence have the same document and question
\* and both succeed, the second reports the num_pages and num_chunks of the
\* first, and its INDEXING stage is a cache hit: it loads no embedding
\* model, embeds no chunk and builds no index
C20_RepeatedQueryHitsCache ==
    \A t \in Threads :
        ( /\ QaDone(t) /\ answer[t].msg = "answer"
          /\ prev[t].ok /\ prev[t].file = file[t] /\ prev[t].query = query[t] )
        => /\ metrics[t].num_pages = prev[t].num_pages
           /\ metrics[t].num_chunks = prev[t].num_chunks
           /\ work[t] \cap {"embed_load", "build"} = {}
           /\ chunks_hash[t] \in DOMAIN _vectordb_cache
           /\ vectordb[t] = _vectordb_cache[chunks_hash[t]]

\* the same document and question have been answered twice, with one build
C20_Witness ==
    \E t \in Threads :
        /\ QaDone(t) /\ answer[t].msg = "answer"
        /\ prev[t].ok /\ prev[t].file = file[t] /\ prev[t].query = query[t]
        /\ work[t] = {"parse"}
        /\ embed_calls = 1 /\ Len(chroma_objs) = 1

\* thread t has built the sources of a response
SourcesDone(t) == pc[t] = "done" /\ entry[t] \in {"sources", "retriever_qa_with_metadata"}
                  /\ (entry[t] = "sources" \/ answer[t].msg = "answer")

\* the position in docs of the first document of page p
FirstOf(docs, p) == CHOOSE j \in DOMAIN docs :
                       docs[j].page = p /\ \A k \in 1..(j - 1) : docs[k].page # p

\* C21: the sources of a response have pairwise distinct pages, which are
\* exactly the pages of the retrieved documents; each page is represented
\* by the first retrieved document of that page, and the pages are in the
\* order of their first occurrence
C21_SourcesDedupFirstSeen ==
    \A t \in Threads :
        SourcesDone(t) =>
            LET docs == source_docs[t]
                src == sources[t]
            IN /\ \A i, j \in DOMAIN src : src[i].page = src[j].page => i = j
               /\ {src[i].page : i \in DOMAIN src} = {docs[j].page : j \in DOMAIN docs}
               /\ \A i \in DOMAIN src :
                     src[i].excerpt = Excerpt(docs[FirstOf(docs, src[i].page)].page_content)
               /\ \A i, j \in DOMAIN src :
                     i < j => FirstOf(docs, src[i].page) < FirstOf(docs, src[j].page)

\* three documents were retrieved, the first and the last of one page
\* and with different texts, and two sources were returned
C21_Witness ==
    \E t \in Threads :
        /\ SourcesDone(t)
        /\ Len(source_docs[t]) = 3 /\ Len(sources[t]) = 2
        /\ source_docs[t][1].page = source_docs[t][3].page
        /\ Excerpt(source_docs[t][1].page_content) # Excerpt(source_docs[t][3].page_content)
        /\ sources[t][1].excerpt = Excerpt(source_docs[t][1].page_content)

\* C22: an excerpt of the returned sources has at most EXCERPT_LEN
\* characters and neither starts nor ends with whitespace
C22_ExcerptBoundedAndTrimmed ==
    \A t \in Threads :
        SourcesDone(t) =>
            \A i \in DOMAIN sources[t] :
                LET x == sources[t][i].excerpt
                IN /\ Len(x) <= EXCERPT_LEN
                   /\ x # <<>> => (x[1] \notin Whitespace /\ x[Len(x)] \notin Whitespace)

\* a text longer than EXCERPT_LEN, with whitespace at the cut, has been
\* made an excerpt
C22_Witness ==
    \E t \in Threads :
        /\ SourcesDone(t)
        /\ source_docs[t] # <<>>
        /\ source_docs[t][1].page_content = <<"a", " ", "a">>
        /\ sources[t][1].excerpt = <<"a">>

\* C23: text_splitter returns neither an empty list nor a chunk whose
\* trimmed text is empty: it raises an input error for an empty page
\* sequence and for pages that leave no usable chunk; the chunks it returns
\* are the trimmed texts of the non-blank pages, in the order of the pages
C23_SplitterNeverEmpty ==
    \A t \in Threads :
        (pc[t] = "done" /\ entry[t] = "text_splitter") =>
            LET data == splits[t]
                val == result[t].val
            IN IF \A i \in DOMAIN data : Strip(data[i].page_content) = <<>>
               THEN result[t] = Raised("ValueError")
               ELSE /\ result[t].kind = "return"
                    /\ val # <<>>
                    /\ \A i \in DOMAIN val :
                          /\ Strip(val[i].page_content) # <<>>
                          /\ val[i].page + 1 \in DOMAIN data
                          /\ val[i].page_content = Strip(data[val[i].page + 1].page_content)
                    /\ \A i, j \in DOMAIN val : i < j => val[i].page < val[j].page
                    /\ \A k \in DOMAIN data :
                          Strip(data[k].page_content) # <<>> =>
                              \E i \in DOMAIN val : val[i].page = data[k].page

\* pages of whitespace only have been refused
C23_Witness ==
    \E t \in Threads :
        /\ pc[t] = "done" /\ entry[t] = "text_splitter"
        /\ Len(splits[t]) = MaxPages
        /\ \A i \in DOMAIN splits[t] : Strip(splits[t][i].page_content) = <<>>
        /\ result[t] = Raised("ValueError")

\* thread t, and no other, takes a step that is a call of vector_database
\* with the empty list
CallsWithNoChunks(t) ==
    /\ ncalls' = ncalls + 1
    /\ entry'[t] = "vector_database" /\ chunks'[t] = <<>>
    /\ pc[t] \in {"idle", "done"} /\ pc'[t] = "done"
    /\ \A u \in Threads \ {t} : pc'[u] = pc[u] /\ entry'[u] = entry[u] /\ chunks'[u] = chunks[u]
                                  /\ result'[u] = result[u]

\* C24: vector_database called with an empty chunk list raises an input
\* error before it computes a fingerprint; the cache is unchanged and the
\* embedding model is neither loaded nor called
C24_EmptyChunksRejected ==
    [][\A t \in Threads :
        CallsWithNoChunks(t) =>
            /\ result'[t] = Raised("ValueError")
            /\ chunks_hash'[t] = NoHash
            /\ work'[t] = {}
            /\ UNCHANGED <<stores, singletons>>]_vars

\* the empty list has been refused after an index was built and cached
C24_Witness ==
    \E t \in Threads :
        /\ pc[t] = "done" /\ entry[t] = "vector_database"
        /\ chunks[t] = <<>> /\ result[t] = Raised("ValueError")
        /\ chunks_hash[t] = NoHash
        /\ DOMAIN _vectordb_cache # {} /\ embed_calls = 1

\* C25: when HF_TOKEN or the name of the embedding model is missing,
\* get_embedding_model raises a configuration error, loads no model and
\* leaves the singleton unset, so that the next call validates again
C25_EmbeddingConfigErrorLeavesNoInstance ==
    [][\A t \in Threads :
        (pc[t] = "vdb_embed" /\ pc'[t] # "vdb_embed"
         /\ (~env.hf_token \/ ~env.embedding_model)) =>
            /\ result'[t] = Raised(IF ~env.hf_token THEN "OSError" ELSE "ValueError")
            /\ pc'[t] = "done"
            /\ "embed_load" \notin work'[t]
            /\ _embed_model_instance = None /\ _embed_model_instance' = None
            /\ embed_objs' = 0 /\ embed_calls' = 0
            /\ _vectordb_cache' = _vectordb_cache]_vars

\* with no HF_TOKEN, a call has failed and the call after it has failed
\* in the same way
C25_Witness ==
    \E t1, t2 \in Threads :
        /\ t1 # t2 /\ ~env.hf_token
        /\ pc[t1] = "done" /\ entry[t1] = "vector_database" /\ result[t1] = Raised("OSError")
        /\ pc[t2] = "done" /\ entry[t2] = "vector_database" /\ result[t2] = Raised("OSError")
        /\ _embed_model_instance = None /\ embed_objs = 0

QueryMetrics ==
    {"load_time", "chunk_time", "embed_time", "generation_time", "total_latency",
     "num_pages", "num_chunks", "num_sources"}

\* C26: a query that ends in DONE returns the answer, the sources and
\* metrics that have all eight fields of QueryMetrics
C26_SuccessHasAllMetrics ==
    \A t \in Threads :
        (QaDone(t) /\ trace[t][Len(trace[t])] = "DONE") =>
            /\ result[t] = Returned(None)
            /\ answer[t] = [msg |-> "answer", exc |-> ""]
            /\ DOMAIN metrics[t] = QueryMetrics
            /\ metrics[t].num_pages = Len(splits[t])
            /\ metrics[t].num_chunks = Len(chunks[t])
            /\ metrics[t].num_sources = Len(source_docs[t])
            /\ sources[t] = DedupByPage(source_docs[t], {})

\* a query on a document of two pages has succeeded with two sources
C26_Witness ==
    \E t \in Threads :
        /\ QaDone(t) /\ trace[t] = StageOrder
        /\ DOMAIN metrics[t] = QueryMetrics
        /\ metrics[t].num_pages = 2 /\ metrics[t].num_sources = 2
        /\ Len(sources[t]) = 2

\* thread t is between the cache miss and the end of the build
Building(t) == pc[t] \in {"vdb_embed", "embed_load", "embed_return", "vdb_build"}

\* the next step of the call of vector_database that thread t is in
VdbStep(t) ==
    \/ VdbLookup(t)
    \/ VdbHit(t)
    \/ EmbedCheck(t)
    \/ EmbedLoad(t)
    \/ EmbedReturn(t)
    \/ VdbBuild(t)

\* C27: callers of vector_database with different fingerprints do not
\* block each other: while one builds for one fingerprint, a call for
\* another fingerprint can always take its next step, and when both have
\* returned each fingerprint has its own entry in the cache
C27_DifferentFingerprintsIndependent ==
    \A t1, t2 \in Threads :
        (t1 # t2 /\ chunks_hash[t1] # chunks_hash[t2]) =>
            /\ (Building(t1) /\ pc[t2] \notin {"idle", "done"}) => ENABLED VdbStep(t2)
            /\ (Done(t1) /\ Done(t2)) =>
                  /\ chunks_hash[t1] \in DOMAIN _vectordb_cache
                  /\ chunks_hash[t2] \in DOMAIN _vectordb_cache
                  /\ _vectordb_cache[chunks_hash[t1]] # _vectordb_cache[chunks_hash[t2]]
                  /\ chroma_objs[_vectordb_cache[chunks_hash[t1]]].hash = chunks_hash[t1]
                  /\ chroma_objs[_vectordb_cache[chunks_hash[t2]]].hash = chunks_hash[t2]

\* two calls for different fingerprints were building at the same time
C27_Witness ==
    \E t1, t2 \in Threads :
        /\ chunks_hash[t1] # chunks_hash[t2]
        /\ pc[t1] = "vdb_build" /\ pc[t2] = "vdb_build"
        /\ _vectordb_cache = [h \in {} |-> None]

\* ---------------------------------------------------------- the chat UI
\* gradio_ui.py:23
_STREAM_CHUNK == 3

\* the files the File component can hold: None, or an uploaded file of
\* type .pdf (gradio_ui.py file_types=[".pdf"])
UiFiles == {f \in Files : f.none \/ (f.exists /\ f.suffix = DotPdf /\ Len(f.pages) <= 1)}

\* what the LLM can answer: words "w", "ww", ... and blanks between them
AnswerTexts == UNION {[1..k -> {"w", " "}] : k \in 0..MaxAnswerLen}

\* the text of a message of the pipeline, as words, blanks and punctuation;
\* "{exc}" stands for the text of the exception
Text(msg) ==
    CASE msg = MsgUpload -> <<"Please", " ", "upload", " ", "a", " ", "PDF">>
      [] msg = MsgEnter -> <<"Please", " ", "enter", " ", "a", " ", "question">>
      [] msg = MsgTooLong -> <<"Your", " ", "question", " ", "is", " ", "too", " ", "long">>
      [] msg = "Input error" -> <<"Input", " ", "error", ":", " ", "{exc}">>
      [] msg = "Could not connect" -> <<"Could", " ", "not", " ", "connect">>
      [] msg = "An unexpected error occurred" ->
            <<"An", " ", "unexpected", " ", "error", " ", "occurred", ":", " ", "{exc}">>
      [] OTHER -> <<>>

\* gradio_ui.py:875: the beginnings bot_response takes for an error
ErrorPrefixes ==
    { <<"Error">>, <<"Input", " ", "error">>, <<"Could", " ", "not">>, <<"Please">>,
      <<"Your", " ", "question">> }

\* str.startswith(tuple)
StartsWithAny(s, prefixes) ==
    \E p \in prefixes : Len(p) <= Len(s) /\ SubSeq(s, 1, Len(p)) = p

\* gradio_ui.py:873-876: is_error
IsError(m, text) == m = NoMetrics \/ StartsWithAny(text, ErrorPrefixes)

\* the place of the first blank of s, or one past its end
WordEnd(s) ==
    IF \E i \in DOMAIN s : s[i] \in Whitespace
    THEN CHOOSE i \in DOMAIN s : s[i] \in Whitespace /\ \A j \in 1..(i - 1) : s[j] \notin Whitespace
    ELSE Len(s) + 1

RECURSIVE Split(_)
\* str.split(): the words of s, with the blanks around and between them gone
Split(s) ==
    LET r == LStrip(s)
    IN IF r = <<>> THEN <<>>
       ELSE <<SubSeq(r, 1, WordEnd(r) - 1)>> \o Split(SubSeq(r, WordEnd(r), Len(r)))

User(content) == [role |-> "user", content |-> content]
Assistant(content) == [role |-> "assistant", content |-> content]

\* gradio_ui.py:751: the note of an upload (the name of the file left out);
\* a note is one piece of text, well within the limit of a question
LoadedNote == <<"**Document loaded:** Ready for analysis.">>
\* gradio_ui.py:852
NoDocumentNote == <<"**No document uploaded.** Please upload a PDF first.">>
\* gradio_ui.py:859
AnalyzingNote == <<"Analyzing document...">>

\* gradio_ui.py:738-742: _user_message(message, chat_history); its first
\* output clears the text box
_user_message(message, history) ==
    IF message = <<>> \/ Strip(message) = <<>> THEN history
    ELSE Append(history, User(Strip(message)))

\* gradio_ui.py:745-752: _on_file_upload(file, chat_history)
_on_file_upload(f, history) ==
    IF f.none THEN history ELSE Append(history, Assistant(LoadedNote))

\* gradio_ui.py:1055-1060: pdf_input.change runs _on_file_upload when the
\* value of the File component changes
OnFileUpload ==
    /\ Len(chatbot) < MaxChat
    /\ \E f \in UiFiles :
        /\ f # pdf_input
        /\ pdf_input' = f
        /\ chatbot' = _on_file_upload(f, chatbot)
    /\ UNCHANGED <<env, pc, entry, result, vdb_locals, retrieved, qa_args, qa_frame,
                   singletons, stores, ncalls, work, prev, metrics_panel, pending, bot_frame>>

\* gradio_ui.py:1029-1047: a submit of the text box or a click of the button
\* runs _user_message, and then bot_response whatever _user_message did
Submit ==
    /\ ~pending
    /\ ncalls < MaxCalls
    /\ Len(chatbot) < MaxChat
    /\ \E message \in QueryTexts : chatbot' = _user_message(message, chatbot)
    /\ pending' = TRUE
    /\ UNCHANGED <<env, pc, entry, result, vdb_locals, retrieved, qa_args, qa_frame,
                   singletons, stores, ncalls, work, prev, pdf_input, metrics_panel, bot_frame>>

\* gradio_ui.py:904-906, 1043-1046: clear_chat
ClearChat ==
    /\ chatbot # <<>> \/ metrics_panel # "STANDBY"
    /\ chatbot' = <<>>
    /\ metrics_panel' = "STANDBY"
    /\ UNCHANGED <<env, pc, entry, result, vdb_locals, retrieved, qa_args, qa_frame,
                   singletons, stores, ncalls, work, prev, pdf_input, pending, bot_frame>>

\* every yield of bot_response replaces the value of the Chatbot component
\* by the generator's chat_history, and the status of the metrics panel
Yield(t, history, status) ==
    /\ chat_history' = [chat_history EXCEPT ![t] = history]
    /\ chatbot' = history
    /\ metrics_panel' = status

\* gradio_ui.py:840-866: bot_response(chat_history, file) up to the call of
\* retriever_qa_with_metadata(file, user_msg)
BotStart(t) ==
    /\ pending
    /\ bot_pc[t] \in {"idle", "finished"}
    /\ pc[t] \in {"idle", "done"}
    /\ pending' = FALSE
    /\ entry' = [entry EXCEPT ![t] = "bot_response"]
    /\ words' = [words EXCEPT ![t] = <<>>]
    /\ streamed' = [streamed EXCEPT ![t] = <<>>]
    /\ idx' = [idx EXCEPT ![t] = 0]
    /\ yields' = [yields EXCEPT ![t] = <<>>]
    /\ IF chatbot = <<>>
       THEN /\ chat_history' = [chat_history EXCEPT ![t] = chatbot]
            /\ bot_pc' = [bot_pc EXCEPT ![t] = "finished"]
            /\ ncalls' = ncalls + 1
            /\ UNCHANGED <<chatbot, metrics_panel, pc, result, vdb_locals, retrieved,
                           qa_args, qa_frame, work, prev>>
       ELSE IF pdf_input.none
       THEN /\ Yield(t, Append(chatbot, Assistant(NoDocumentNote)), "ERROR")
            /\ bot_pc' = [bot_pc EXCEPT ![t] = "finished"]
            /\ ncalls' = ncalls + 1
            /\ UNCHANGED <<pc, result, vdb_locals, retrieved, qa_args, qa_frame, work, prev>>
       ELSE /\ Yield(t, Append(chatbot, Assistant(AnalyzingNote)), "PROCESSING")
            /\ bot_pc' = [bot_pc EXCEPT ![t] = "pipeline"]
            /\ QaEnter(t, pdf_input, [is_str |-> TRUE, text |-> chatbot[Len(chatbot)].content])
    /\ UNCHANGED <<env, singletons, stores, pdf_input>>

\* chat_history[-1] = {"role": "assistant", "content": content}
ReplaceLast(history, content) == [history EXCEPT ![Len(history)] = Assistant(content)]

\* the text retriever_qa_with_metadata returned on thread t: a message of
\* the pipeline, or what the LLM wrote
AnswerTextsOf(t) == IF answer[t].msg = "answer" THEN AnswerTexts ELSE {Text(answer[t].msg)}

\* gradio_ui.py:872-885: the test of the answer, the error shown at once, or
\* the words of the answer
BotFinish(t) ==
    /\ bot_pc[t] = "pipeline"
    /\ pc[t] = "done"
    /\ \E text \in AnswerTextsOf(t) :
        IF IsError(metrics[t], text)
        THEN /\ Yield(t, ReplaceLast(chat_history[t], <<"**Error:**", " ">> \o text), "ERROR")
             /\ bot_pc' = [bot_pc EXCEPT ![t] = "finished"]
             /\ UNCHANGED <<words, streamed, idx>>
        ELSE /\ words' = [words EXCEPT ![t] = Split(text)]
             /\ streamed' = [streamed EXCEPT ![t] = <<>>]
             /\ idx' = [idx EXCEPT ![t] = 0]
             /\ bot_pc' = [bot_pc EXCEPT ![t] = "stream"]
             /\ UNCHANGED <<chatbot, chat_history, metrics_panel>>
    /\ UNCHANGED <<env, pc, entry, result, vdb_locals, retrieved, qa_args, qa_frame,
                   singletons, stores, ncalls, work, prev, pdf_input, pending, yields>>

AddWordReset(text, word) == word \o <<" ">>

\* gradio_ui.py:888: streamed += word + " "
AddWord(text, word) == text \o word \o <<" ">>

\* str(page).isdigit() and int(page) + 1 (gradio_ui.py:898)
PageDisplay(page) == IF page = Unknown THEN "?" ELSE ToString(page + 1)

\* gradio_ui.py:896-900: the block of the sources
SrcMd(srcs) == <<"**Sources Referenced**">> \o [i \in DOMAIN srcs |-> PageDisplay(srcs[i].page)]

\* gradio_ui.py:887-892: one turn of the typewriter loop; words are indexed
\* from 0 in the code and from 1 here
StreamStep(t) ==
    /\ bot_pc[t] = "stream"
    /\ idx[t] < Len(words[t])
    /\ LET text == AddWord(streamed[t], words[t][idx[t] + 1])
       IN /\ streamed' = [streamed EXCEPT ![t] = text]
          /\ IF idx[t] % _STREAM_CHUNK = 0 \/ idx[t] = Len(words[t]) - 1
             THEN /\ Yield(t, ReplaceLast(chat_history[t], Strip(text)), "COMPLETE")
                  /\ yields' = [yields EXCEPT ![t] = Append(@, Strip(text))]
             ELSE UNCHANGED <<chatbot, chat_history, metrics_panel, yields>>
    /\ idx' = [idx EXCEPT ![t] = idx[t] + 1]
    /\ UNCHANGED <<env, pc, entry, result, vdb_locals, retrieved, qa_args, qa_frame,
                   singletons, stores, ncalls, work, prev, pdf_input, pending, bot_pc, words>>

\* gradio_ui.py:895-902: after the loop, the sources are appended if any
StreamEnd(t) ==
    /\ bot_pc[t] = "stream"
    /\ idx[t] = Len(words[t])
    /\ bot_pc' = [bot_pc EXCEPT ![t] = "finished"]
    /\ IF sources[t] # <<>>
       THEN Yield(t, ReplaceLast(chat_history[t], Strip(streamed[t]) \o SrcMd(sources[t])),
                  "COMPLETE")
       ELSE UNCHANGED <<chatbot, chat_history, metrics_panel>>
    /\ UNCHANGED <<env, pc, entry, result, vdb_locals, retrieved, qa_args, qa_frame,
                   singletons, stores, ncalls, work, prev, pdf_input, pending, words,
                   streamed, idx, yields>>

\* the events of the page and the one worker that serves bot_response
NextUI ==
    \/ OnFileUpload
    \/ Submit
    \/ ClearChat
    \/ \E t \in QaThreads :
        \/ BotStart(t)
        \/ QaValidate(t)
        \/ QaLoad(t)
        \/ QaChunk(t)
        \/ QaIndex(t)
        \/ VdbLookup(t)
        \/ VdbHit(t)
        \/ EmbedCheck(t)
        \/ EmbedLoad(t)
        \/ EmbedReturn(t)
        \/ VdbBuild(t)
        \/ LlmCheck(t)
        \/ LlmLoad(t)
        \/ LlmReturn(t)
        \/ QaInvoke(t)
        \/ BotFinish(t)
        \/ StreamStep(t)
        \/ StreamEnd(t)

SpecUI == Init /\ [][NextUI]_vars

\* ------------------------------------------------- properties of the UI
\* thread t is inside the call bot_response made of the pipeline
InPipeline(t) == entry[t] = "bot_response" /\ bot_pc[t] = "pipeline"

\* the entry of chat_history whose content bot_response took as user_msg:
\* the last one before the note "Analyzing document..." it appended
Asked(t) == chat_history[t][Len(chat_history[t]) - 1]

\* C28: whenever bot_response runs the pipeline, the entry of the chat
\* history it took the question from is the user message _user_message has
\* just appended: under any sequence of uploads, blank and non-blank submits
\* and clears, the text sent as the question is the content of a message of
\* role "user"
C28_QuestionIsUserMessage ==
    \A t \in QaThreads :
        InPipeline(t) =>
            /\ Asked(t).role = "user"
            /\ pc[t] = "qa_validate" => query[t].text = Asked(t).content

\* the query bot_response made on thread t has ended in a failure message
QueryFailed(t) == InPipeline(t) /\ pc[t] = "done" /\ trace[t][Len(trace[t])] = "FAILED"

\* C29: bot_response detects every failure message of the pipeline
\* (validation, input error, service unavailable, unexpected error, at
\* whichever stage) and shows it at once as "**Error:** ..." with status
\* ERROR; it never goes on to stream it as an answer with status COMPLETE
C29_EveryFailureShownAsError ==
    [][\A t \in QaThreads :
          (QueryFailed(t) /\ bot_pc'[t] # "pipeline") =>
              /\ bot_pc'[t] = "finished"
              /\ metrics_panel' = "ERROR"
              /\ chatbot'[Len(chatbot')].content = <<"**Error:**", " ">> \o Text(answer[t].msg)]_vars

\* C30: the typewriter loop yields finitely many texts, no more than the
\* answer has words; the words of each yielded text are a proper initial
\* part of the words of the next; and once the loop has ended the last text
\* it yielded (before any block of sources) has all the words of the
\* answer, in their order
C30_StreamGrowsByWordPrefixes ==
    \A t \in QaThreads :
        /\ Len(yields[t]) <= Len(words[t])
        /\ \A i \in 1..(Len(yields[t]) - 1) :
              /\ IsPrefix(Split(yields[t][i]), Split(yields[t][i + 1]))
              /\ Len(Split(yields[t][i])) < Len(Split(yields[t][i + 1]))
        /\ (yields[t] # <<>>) => IsPrefix(Split(yields[t][Len(yields[t])]), words[t])
        /\ (bot_pc[t] \in {"stream", "finished"} /\ idx[t] = Len(words[t]) /\ words[t] # <<>>) =>
              /\ yields[t] # <<>>
              /\ Split(yields[t][Len(yields[t])]) = words[t]

\* an answer of the LLM of three words has been streamed to its end in two
\* increments
C30_Witness ==
    \E t \in QaThreads :
        /\ bot_pc[t] = "finished"
        /\ answer[t].msg = "answer"
        /\ Len(words[t]) = 3
        /\ Len(yields[t]) = 2

\* -------------------------------------------- properties of failed builds
\* the step ends the call of vector_database of thread t with an exception
\* raised by the embedding provider or by the construction of the index
BuildFails(t) == Building(t) /\ pc'[t] = "done" /\ result'[t].kind = "raise"

\* C31: a build that fails leaves the cache as it was; an entry enters the
\* cache only with a build of its fingerprint that succeeds, so a call that
\* looks up a fingerprint whose builds have all failed goes on to build
C31_FailedBuildLeavesCache ==
    [][/\ \A t \in Threads : BuildFails(t) => _vectordb_cache' = _vectordb_cache
       /\ \A h \in DOMAIN _vectordb_cache' :
             h \notin DOMAIN _vectordb_cache =>
                \E t \in Threads :
                   /\ pc[t] = "vdb_build" /\ chunks_hash[t] = h
                   /\ result'[t].kind = "return"
                   /\ chroma_objs'[_vectordb_cache'[h]].docs = DocsOf(chunks[t])
       /\ \A t \in Threads :
             (pc[t] = "vdb_lookup" /\ pc'[t] # "vdb_lookup"
              /\ chunks_hash[t] \notin DOMAIN _vectordb_cache) => pc'[t] = "vdb_embed"]_vars

\* the index construction of one call has failed, the cache is empty, and
\* another call for the same fingerprint is building again
C31_Witness ==
    \E t, u \in Threads :
        /\ pc[t] = "done" /\ entry[t] = "vector_database"
        /\ result[t] = Raised("RuntimeError") /\ "build" \in work[t]
        /\ u # t /\ chunks_hash[u] = chunks_hash[t]
        /\ pc[u] = "vdb_build"
        /\ _vectordb_cache = [h \in {} |-> None]

\* ------------------------------------------ properties of failed queries
\* the fields of the metrics that the stages before stage have written
FieldsBefore(stage) ==
    CASE stage \in {"VALIDATING", "LOADING"} -> {}
      [] stage = "CHUNKING" -> {"load_time", "num_pages"}
      [] stage = "INDEXING" -> {"load_time", "num_pages", "chunk_time", "num_chunks"}
      [] stage = "GENERATING" ->
            {"load_time", "num_pages", "chunk_time", "num_chunks", "embed_time"}

\* C32: the metrics of a failed query have exactly the fields of the stages
\* that completed before the failure: none after a failure of the validation
\* or of LOADING, load_time and num_pages after one of CHUNKING, chunk_time
\* and num_chunks too after one of INDEXING, embed_time too after one of the
\* generation; total_latency, generation_time and num_sources are there only
\* when the query succeeded
C32_FailedQueryHasPartialMetrics ==
    \A t \in Threads :
        /\ \A stage \in {"VALIDATING", "LOADING", "CHUNKING", "INDEXING", "GENERATING"} :
              FailedIn(t, stage) => DOMAIN metrics[t] = FieldsBefore(stage)
        /\ (QaDone(t)
            /\ DOMAIN metrics[t] \cap {"total_latency", "generation_time", "num_sources"} # {}) =>
              /\ trace[t][Len(trace[t])] = "DONE"
              /\ answer[t].msg = "answer"

\* a query has failed in the generation, at the call of the chain, with the
\* five fields of the three stages before it
C32_Witness ==
    \E t \in Threads :
        /\ FailedIn(t, "GENERATING")
        /\ llm[t] # None
        /\ answer[t].exc = "RuntimeError"
        /\ DOMAIN metrics[t] = FieldsBefore("GENERATING")

\* C33: the message 'Could not connect to the Ollama server...' is returned
\* only when the backend of the answer generator is unreachable, that is
\* when the call of the chain fails in the generation; a connection failure
\* raised in another stage is not reported with it
C33_ConnectMessageOnlyForGenerator ==
    \A t \in Threads :
        (QaDone(t) /\ answer[t].msg = "Could not connect") =>
            /\ FailedIn(t, "GENERATING")
            /\ llm[t] # None

\* C34: the result 'Input error: ...' is returned only for a problem with
\* the document or the question, which the stages LOADING and CHUNKING find;
\* a failure of the configuration raised by get_embedding_model (INDEXING)
\* or by get_llm (GENERATING) is not reported with it
C34_InputErrorOnlyForUserInput ==
    \A t \in Threads :
        (QaDone(t) /\ answer[t].msg = "Input error") =>
            FailedIn(t, "LOADING") \/ FailedIn(t, "CHUNKING")

\* ------------------------------------------ properties of the fingerprint
RECURSIVE ConcatPrefixes(_)
\* the first PREFIX_LEN characters of the text of each chunk, one after
\* the other in the order of the chunks
ConcatPrefixes(cs) ==
    IF cs = <<>> THEN <<>>
    ELSE ConcatPrefixes(SubSeq(cs, 1, Len(cs) - 1)) \o Slice(cs[Len(cs)].page_content, PREFIX_LEN)

\* the call of thread t has returned from the hit branch
HitDone(t) == Done(t) /\ "build" \notin work[t]

\* C35: the fingerprint depends on the concatenation, in chunk order, of the
\* first PREFIX_LEN characters of the text of each chunk and on nothing
\* else: chunk lists with equal texts and different pages have one
\* fingerprint, hence one cache entry, and a call that finds the entry
\* receives the index built from the chunks of the call that made it
C35_FingerprintIgnoresMetadata ==
    \A t1, t2 \in Threads :
        (chunks[t1] # <<>> /\ chunks[t2] # <<>> /\ pc[t1] # "idle" /\ pc[t2] # "idle"
         /\ ConcatPrefixes(chunks[t1]) = ConcatPrefixes(chunks[t2])) =>
            /\ chunks_hash[t1] = chunks_hash[t2]
            /\ HitDone(t2) =>
                  /\ chunks_hash[t1] \in DOMAIN _vectordb_cache
                  /\ chroma_objs[result[t2].val].hash = chunks_hash[t1]
                  /\ (Done(t1) /\ ~HitDone(t1) /\ Len(chroma_objs) = 1) =>
                        chroma_objs[result[t2].val].docs = DocsOf(chunks[t1])

\* a call with the texts of an earlier call and other pages has been given
\* the index built from the chunks of the earlier call
C35_Witness ==
    \E t1, t2 \in Threads :
        /\ Done(t1) /\ ~HitDone(t1) /\ HitDone(t2)
        /\ [i \in DOMAIN chunks[t1] |-> chunks[t1][i].page_content]
              = [i \in DOMAIN chunks[t2] |-> chunks[t2][i].page_content]
        /\ \A i \in DOMAIN chunks[t1] : chunks[t1][i].page # chunks[t2][i].page
        /\ Len(chroma_objs) = 1
        /\ result[t2].val = result[t1].val
        /\ chroma_objs[result[t2].val].docs = DocsOf(chunks[t1])
        /\ DocsOf(chunks[t2]) \cap chroma_objs[result[t2].val].docs = {}

\* ------------------------------------------- retriever_qa(file, query)
\* the value None passed as the question
NoneQuery == [is_str |-> FALSE, text |-> <<"N">>]

\* bool(query): a string is true when it is not empty, None is false, any
\* other value the callers pass (a list with an element) is true
Truthy(q) == IF q.is_str THEN q.text # <<>> ELSE q # NoneQuery

\* QA_chain.py:49-61: what the validation of retriever_qa decides; it does
\* not coerce the question, and .strip() of a value that is not a string
\* raises AttributeError before the try block
RqaValidate(f, q) ==
    IF f.none THEN "upload"
    ELSE IF ~Truthy(q) THEN "enter"
    ELSE IF ~q.is_str THEN "AttributeError"
    ELSE IF Strip(q.text) = <<>> THEN "enter"
    ELSE IF Len(Strip(q.text)) > QUERY_MAX THEN "too long"
    ELSE "proceed"

\* the kind of a message of the validation of retriever_qa_with_metadata
MsgKind(msg) ==
    CASE msg = MsgUpload -> "upload"
      [] msg = MsgEnter -> "enter"
      [] msg = MsgTooLong -> "too long"
      [] OTHER -> "other"

\* C36: retriever_qa and retriever_qa_with_metadata decide alike at the
\* validation: for every file and question, a question that is None or not
\* a string included, either both reject it with the same kind of message
\* or both go on to the pipeline
C36_EntryPointsValidateAlike ==
    [][\A t \in Threads :
          Validates(t) =>
             /\ (pc'[t] = "qa_load") <=> (RqaValidate(file[t], query[t]) = "proceed")
             /\ (pc'[t] = "done") => MsgKind(answer'[t].msg) = RqaValidate(file[t], query[t])]_vars

\* ------------------------------------------ properties of the placeholder
\* the step ends the run of bot_response that thread t began by showing
\* the placeholder with status PROCESSING
RunEnds(t) == bot_pc[t] \in {"pipeline", "stream"} /\ bot_pc'[t] = "finished"

\* C37: a run of bot_response that has shown 'Analyzing document...' with
\* status PROCESSING replaces the placeholder, by a yield with status
\* COMPLETE or ERROR, before the generator finishes, whatever the pipeline
\* returned, an answer with no word and no sources included
C37_PlaceholderAlwaysReplaced ==
    [][\A t \in QaThreads :
          RunEnds(t) =>
             /\ chat_history'[t][Len(chat_history'[t])].content # AnalyzingNote
             /\ chatbot' = chat_history'[t] => metrics_panel' \in {"COMPLETE", "ERROR"}]_vars

\* --------------------------------------- properties of the source count
\* two of the documents docs have one page, or both have none
SharePage(docs) == \E i, j \in DOMAIN docs : i < j /\ docs[i].page = docs[j].page

\* C38: num_sources is the number of the retrieved documents before the
\* deduplication, so the sources are never more than num_sources; they are
\* fewer whenever two retrieved documents share a page or more than one has
\* no page, all the documents with no page giving one entry '?'
C38_NumSourcesCountsRetrieved ==
    \A t \in Threads :
        SourcesDone(t) =>
            /\ metrics[t].num_sources = Len(source_docs[t])
            /\ Len(sources[t]) <= metrics[t].num_sources
            /\ SharePage(source_docs[t]) => Len(sources[t]) < metrics[t].num_sources
            /\ ~SharePage(source_docs[t]) => Len(sources[t]) = metrics[t].num_sources
            /\ Cardinality({i \in DOMAIN sources[t] : sources[t][i].page = Unknown}) <= 1

\* three documents with no page were retrieved and one source was returned
C38_Witness ==
    \E t \in Threads :
        /\ SourcesDone(t)
        /\ metrics[t].num_sources = 3
        /\ \A i \in DOMAIN source_docs[t] : source_docs[t][i].page = Unknown
        /\ Len(sources[t]) = 1 /\ sources[t][1].page = Unknown

====
